---------------------------- MODULE Spec2Model ----------------------------
(* A model of zoysii_solver: the 4x4 board mechanics (board.rs), the       *)
(* coordinates and moves (values.rs, action.rs), the bit-packed move        *)
(* sequence (action.rs), the symmetry-canonical shortcut cache (marks.rs)   *)
(* and the breadth-first solver (solve.rs).                                 *)
EXTENDS Integers, Sequences, FiniteSets, TLC

VARIABLES
    build,            \* "debug" or "release": the profile the crate was compiled with
    \* ---- board mechanics (SpecBoard) ----
    board,            \* the current Board: [pos, cells]
    before,           \* the Board the last move was applied to
    last,             \* the last Move tried ("-" before the first)
    outcome,          \* "Parsed" | "Some" | "None" | "Panic": what the last call returned
    nmoves,           \* number of moves tried so far
    \* ---- solver (Spec) ----
    input,            \* the board handed to solve_board
    max_moves,        \* the budget handed to solve_board
    pc,               \* "entry" | "loop" | "check" | "done" | "panic"
    steps,            \* the frontier: a set of SolveStep
    next_steps,       \* what par_extend collected in this round
    visited,          \* HashSet<Board>
    moves_remaining,
    rounds,           \* number of loop bodies executed
    cache_init,       \* whether the Lazy ACTION_BOARDS has been forced
    result,           \* "-" | [some |-> FALSE] | [some |-> TRUE, actions |-> <<..>>]
    frontiers,        \* the boards of the frontier of each round so far, in order
                      \* (solve_board itself keeps only the last frontier)
    \* ---- the workers of par_extend (SpecPar) ----
    taken,            \* the steps of the frontier the workers have taken so far
    busy,             \* per worker: [phase, items, list], what it holds and what
                      \* it has collected in this round
    par_panic,        \* a closure has panicked in this round (Spec, SpecPar)
    \* ---- move sequence (SpecSeq) ----
    seq,              \* the ActionSequence held by the caller
    seq_prev,         \* the ActionSequence the last add was applied to
    appended,         \* the Moves appended so far, in order
    seq_out,          \* "off" | "New" | "Added" | "Panic": what the last call did
    plan,             \* the Moves the caller appends, repeated in a cycle
    \* ---- shortcut cache queries (SpecCache) ----
    q_marks,          \* the occupied-pattern queried (a MarkBoard)
    q_pos,            \* the pos of the query
    q_end,            \* the end of the query
    q_pc,             \* "off" | "pattern" | "asked" | "panic"
    walk_pos,         \* where following action_towards from q_pos has led
    walk_len,         \* number of Moves followed
    \* ---- board text (SpecText) ----
    text,             \* the text handed to from_str: a sequence of characters
    parsed,           \* what from_str returned: [ok, board]
    rendered,         \* to_string of the parsed board: a sequence of characters
    t_pc,             \* "off" | "text" | "parsed" | "error" | "rendered"
    \* ---- symmetries (SpecSym) ----
    sy_sym,           \* the Sym applied: [transform, mirror]
    sy_p,             \* a Point inside the grid
    sy_marks,         \* a MarkBoard
    sy_a,             \* the Move added to sy_p ("-" before one is chosen)
    sy_image,         \* sy_p.symmetry(sy_sym)
    sy_back,          \* sy_image.reverse_symmetry(sy_sym)
    sy_marks_image,   \* sy_marks.symmetry(sy_sym)
    sy_marks_back,    \* sy_marks.transform(t).transform(t.reverse()), t of sy_sym
    sy_moved,         \* (sy_p + sy_a).symmetry(sy_sym)
    sy_pc             \* "off" | "input" | "image" | "back" | "marks" | "round" | "moved"

boardVars == <<board, before, last, outcome, nmoves>>
solveVars == <<input, max_moves, pc, steps, next_steps, visited,
               moves_remaining, rounds, cache_init, result>>
seqVars == <<seq, seq_prev, appended, seq_out, plan>>
cacheVars == <<q_marks, q_pos, q_end, q_pc, walk_pos, walk_len>>
textVars == <<text, parsed, rendered, t_pc>>
symVars == <<sy_sym, sy_p, sy_marks, sy_a, sy_image, sy_back, sy_marks_image,
            sy_marks_back, sy_moved, sy_pc>>
parVars == <<taken, busy, par_panic>>
restVars == <<seqVars, cacheVars, textVars, symVars, parVars>>
otherVars == <<restVars, frontiers>>

vars == <<build, boardVars, solveVars, frontiers, seqVars, cacheVars, textVars,
          symVars, parVars>>

---------------------------------------------------------------------------
(* Program constants *)

\* values.rs: pub const N: usize = 4
N == 4

\* CellNumber = u8: 2^8 values
U8 == 256

Builds == {"debug", "release"}

---------------------------------------------------------------------------
(* Bounds of the model *)

\* cells 0..MaxCellIndex of a parsed board may be nonzero, the rest are 0
MaxCellIndex == 4
\* moves tried in a row on one board (SpecBoard)
MaxDepth == 2
\* the largest in-contract budget handed to solve_board (Spec)
MaxBudget == 4

---------------------------------------------------------------------------
(* values.rs: Point *)

\* Point::from(row, column): column + row * N when column < N, else N * N
Point_from(r, c) == (IF c < N THEN c + r * N ELSE N * N) % U8

index(p) == p
row(p) == index(p) \div N
column(p) == index(p) % N
inside(p) == index(p) < N * N

iter_all == 0 .. (N * N - 1)

---------------------------------------------------------------------------
(* action.rs: Action *)

ACTION_LIST == <<"UP", "DOWN", "LEFT", "RIGHT">>
Actions == {ACTION_LIST[i] : i \in 1..4}

\* impl Add<Action> for Point
PointAdd(self, rhs) ==
    LET r == row(self)
        c == column(self)
    IN Point_from(
         CASE rhs \in {"LEFT", "RIGHT"} -> r
           [] rhs = "UP" /\ r > 0 -> r - 1
           [] rhs = "DOWN" -> r + 1
           [] OTHER -> N,
         CASE rhs \in {"UP", "DOWN"} -> c
           [] rhs = "LEFT" /\ c > 0 -> c - 1
           [] rhs = "RIGHT" -> c + 1
           [] OTHER -> N)

---------------------------------------------------------------------------
(* board.rs: Board mechanics. Board.cells is a u128 holding 16 bytes; the  *)
(* model keeps the 16 bytes as a function from the byte's index.           *)

\* let v = ...: the value is computed first, once, and named in what follows
let_in(v, F(_)) == CHOOSE r \in {F(x) : x \in {v}} : TRUE

\* u8 addition: a debug build panics on overflow, a release build wraps
u8_add(a, b, bld) ==
    IF a + b < U8 THEN [ok |-> TRUE, v |-> a + b]
    ELSE IF bld = "debug" THEN [ok |-> FALSE, v |-> 0]
    ELSE [ok |-> TRUE, v |-> (a + b) % U8]

Min(a, b) == IF a < b THEN a ELSE b
Max(a, b) == IF a > b THEN a ELSE b

cell_num_diff(num, origin, bld) ==
    IF num = origin THEN [ok |-> TRUE, v |-> 0]
    ELSE LET low == Min(num, origin)
             high == Max(num, origin)
         IN IF high > low + 1 THEN [ok |-> TRUE, v |-> high - low]
            ELSE u8_add(high, low, bld)

\* (self.cells >> (p.index() * 8)) as u8
cell(b, p) == b.cells[index(p)]

\* self.cells ^= ((self.cell(p) ^ v) as u128) << (p.index() * 8):
\* byte p becomes cell(p) ^ cell(p) ^ v = v, the other bytes are left alone
set_cell(cells, p, v) == [cells EXCEPT ![index(p)] = v]

\* the while loop of apply_action, from ray position pos on
RECURSIVE apply_ray(_, _, _, _, _, _)
\* the loop without the test v > 0: zero ray cells are rewritten too
apply_ray_unguarded(cells, pos, a, origin, clears, bld) ==
    IF ~inside(pos) THEN [ok |-> TRUE, cells |-> cells, clears |-> clears]
    ELSE let_in(cell_num_diff(cells[index(pos)], origin, bld), LAMBDA nv :
         IF ~nv.ok THEN [ok |-> FALSE, cells |-> cells, clears |-> clears]
         ELSE apply_ray(set_cell(cells, pos, nv.v), PointAdd(pos, a), a, origin,
                        clears + (IF nv.v = 0 THEN 1 ELSE 0), bld))

apply_ray(cells, pos, a, origin, clears, bld) ==
    IF ~inside(pos) THEN [ok |-> TRUE, cells |-> cells, clears |-> clears]
    ELSE LET v == cells[index(pos)] IN
         IF v > 0
         THEN let_in(cell_num_diff(v, origin, bld), LAMBDA nv :
              IF ~nv.ok THEN [ok |-> FALSE, cells |-> cells, clears |-> clears]
              ELSE apply_ray(set_cell(cells, pos, nv.v), PointAdd(pos, a), a, origin,
                             clears + (IF nv.v = 0 THEN 1 ELSE 0), bld))
         ELSE apply_ray(cells, PointAdd(pos, a), a, origin, clears, bld)

\* apply_action with the old-position cell zeroed whatever the count of clears
apply_action_always_discharged(cells, p, a, bld) ==
    LET origin == cells[index(p)] IN
    IF origin > 0
    THEN let_in(apply_ray(cells, PointAdd(p, a), a, origin, 0, bld), LAMBDA r :
         IF ~r.ok THEN r
         ELSE [ok |-> TRUE, cells |-> set_cell(r.cells, p, 0), clears |-> r.clears + 1])
    ELSE [ok |-> TRUE, cells |-> cells, clears |-> 0]

\* Board::apply_action(&mut self, p, action) -> clears
apply_action(cells, p, a, bld) ==
    LET origin == cells[index(p)] IN
    IF origin > 0
    THEN let_in(apply_ray(cells, PointAdd(p, a), a, origin, 0, bld), LAMBDA r :
         IF ~r.ok THEN r
         ELSE IF r.clears > 0
              THEN [ok |-> TRUE, cells |-> set_cell(r.cells, p, 0), clears |-> r.clears + 1]
              ELSE r)
    ELSE [ok |-> TRUE, cells |-> cells, clears |-> 0]

\* action with apply_action called on the new position instead of self.pos
action_from_new_pos(b, a, bld) ==
    LET pos == PointAdd(b.pos, a) IN
    IF inside(pos)
    THEN let_in(apply_action(b.cells, pos, a, bld), LAMBDA r :
         IF r.ok THEN [kind |-> "Some", board |-> [pos |-> pos, cells |-> r.cells]]
         ELSE [kind |-> "Panic", board |-> b])
    ELSE [kind |-> "None", board |-> b]

\* Board::action(&self, action) -> Option<Board>
action(b, a, bld) ==
    LET pos == PointAdd(b.pos, a) IN
    IF inside(pos)
    THEN let_in(apply_action(b.cells, b.pos, a, bld), LAMBDA r :
         IF r.ok THEN [kind |-> "Some", board |-> [pos |-> pos, cells |-> r.cells]]
         ELSE [kind |-> "Panic", board |-> b])
    ELSE [kind |-> "None", board |-> b]

\* Board::is_won: self.cells == 0
is_won(b) == \A i \in iter_all : b.cells[i] = 0

\* Board::row(row): (self.cells >> (row * N * 8)) as u32, as its 4 bytes
board_row(b, r) == [c \in 0 .. (N - 1) |-> b.cells[r * N + c]]

\* Board::col(col): byte r of the u32 is cell(Point::from(r, col))
board_col(b, c) == [r \in 0 .. (N - 1) |-> cell(b, Point_from(r, c))]

\* (word & !(0xFF << (k * 8))) == 0 for a u32 given as its 4 bytes
masked_is_zero(word, k) == \A j \in 0 .. (N - 1) : j = k \/ word[j] = 0

\* dead_cell with the column test left out
dead_cell_row_only(b, p) ==
    LET r == row(p)
        c == column(p)
    IN /\ cell(b, p) # 0
       /\ masked_is_zero(board_row(b, r), c)

\* Board::dead_cell
dead_cell(b, p) ==
    LET r == row(p)
        c == column(p)
    IN /\ cell(b, p) # 0
       /\ masked_is_zero(board_row(b, r), c)
       /\ masked_is_zero(board_col(b, c), r)

\* Board::is_lost
is_lost(b) ==
    \E r \in 0 .. (N - 1) : \E c \in 0 .. (N - 1) : dead_cell(b, Point_from(r, c))

---------------------------------------------------------------------------
(* action.rs: ActionSequence(u64). The model keeps the word as its fields: *)
(* len, bits 0..5, and acts[i], bits 6+2i..7+2i, for i in 0..28.           *)

SEQ_BITS == 64
LEN_BITS == 6
ACTION_BITS == 2
MAX_LENGTH == (SEQ_BITS - LEN_BITS) \div ACTION_BITS

\* bitwise or / xor of two naturals
RECURSIVE bit_or(_, _)
bit_or(x, y) ==
    IF x = 0 THEN y ELSE IF y = 0 THEN x
    ELSE (IF x % 2 = 1 \/ y % 2 = 1 THEN 1 ELSE 0) + 2 * bit_or(x \div 2, y \div 2)

RECURSIVE bit_xor(_, _)
bit_xor(x, y) ==
    IF x = 0 THEN y ELSE IF y = 0 THEN x
    ELSE (IF x % 2 # y % 2 THEN 1 ELSE 0) + 2 * bit_xor(x \div 2, y \div 2)

\* Action::index (the position in ACTIONS, as add's match and get use it)
action_index(a) == CHOOSE i \in 0 .. 3 : ACTION_LIST[i + 1] = a

\* ActionSequence::new
seq_new == [len |-> 0, acts |-> [i \in 0 .. (MAX_LENGTH - 1) |-> 0]]

\* ActionSequence::length: 0x3F & self.0
length(s) == s.len

\* add with the codes of LEFT and RIGHT exchanged in its match
seq_add_swapped(s, a, bld) ==
    LET len == length(s)
        v == CASE a = "UP" -> 0 [] a = "DOWN" -> 1 [] a = "LEFT" -> 3 [] a = "RIGHT" -> 2
    IN IF bld = "debug" /\ len + 1 > MAX_LENGTH
       THEN [ok |-> FALSE, seq |-> s]
       ELSE [ok |-> TRUE,
             seq |-> [len |-> len + 1,
                      acts |-> [s.acts EXCEPT ![len % MAX_LENGTH] = v]]]

\* ActionSequence::add. debug_assert!(len + 1 <= MAX_LENGTH) panics in a debug
\* build only; in a release build the shift amount wraps at 64.
seq_add(s, a, bld) ==
    LET len == length(s)
        \* self.0 ^ (len ^ (len + 1)): touches bits 0..6
        x == bit_xor(len, bit_xor(len, len + 1))
        len1 == x % (2 ^ LEN_BITS)
        acts1 == IF x >= 2 ^ LEN_BITS
                 THEN [s.acts EXCEPT ![0] = bit_xor(@, 1)]
                 ELSE s.acts
        shift == (ACTION_BITS * len + LEN_BITS) % SEQ_BITS
        v == action_index(a)
    IN IF bld = "debug" /\ len + 1 > MAX_LENGTH
       THEN [ok |-> FALSE, seq |-> s]
       ELSE IF shift < LEN_BITS
            THEN [ok |-> TRUE,
                  seq |-> [len |-> bit_or(len1, v * 2 ^ shift), acts |-> acts1]]
            ELSE [ok |-> TRUE,
                  seq |-> [len |-> len1,
                           acts |-> [acts1 EXCEPT ![(shift - LEN_BITS) \div ACTION_BITS]
                                                     = bit_or(@, v)]]]

\* get with the shift index * ACTION_BITS, the length field not skipped
seq_get_no_len_bits(s, i) ==
    LET skip == LEN_BITS \div ACTION_BITS
    IN IF i < skip THEN ACTION_LIST[((s.len \div (2 ^ (ACTION_BITS * i))) % 4) + 1]
       ELSE ACTION_LIST[s.acts[i - skip] + 1]

\* ActionSequence::get: ACTIONS[(self.0 >> (index * ACTION_BITS + LEN_BITS)) & 0x03]
seq_get(s, i) == ACTION_LIST[s.acts[i] + 1]

\* impl From<ActionSequence> for Vec<Action>
seq_to_vec(s) == [i \in 1 .. length(s) |-> seq_get(s, i - 1)]

---------------------------------------------------------------------------
(* values.rs: the symmetries of a Point *)

\* Transform::reverse
transform_reverse(t) ==
    CASE t = "Mirror" -> "Mirror"
      [] t = "Deg90" -> "Deg270"
      [] t = "Deg270" -> "Deg90"
      [] t = "Deg180" -> "Deg180"

\* Point::transform
point_transform(p, t) ==
    CASE t = "Mirror" -> Point_from(N - 1 - row(p), column(p))
      [] t = "Deg90" -> Point_from(N - 1 - column(p), row(p))
      [] t = "Deg270" -> Point_from(column(p), N - 1 - row(p))
      [] t = "Deg180" -> Point_from(N - 1 - row(p), N - 1 - column(p))

\* Point::symmetry
point_symmetry(p, sym) ==
    IF sym.transform = "Mirror" /\ sym.mirror THEN p
    ELSE point_transform(IF sym.mirror THEN point_transform(p, "Mirror") ELSE p,
                         sym.transform)

\* reverse_symmetry with the mirror undone first
point_reverse_symmetry_mirror_first(p, sym) ==
    IF sym.transform = "Mirror" /\ sym.mirror THEN p
    ELSE point_transform(IF sym.mirror THEN point_transform(p, "Mirror") ELSE p,
                         transform_reverse(sym.transform))

\* Point::reverse_symmetry
point_reverse_symmetry(p, sym) ==
    IF sym.transform = "Mirror" /\ sym.mirror THEN p
    ELSE LET v == point_transform(p, transform_reverse(sym.transform))
         IN IF sym.mirror THEN point_transform(v, "Mirror") ELSE v

\* Action::reverse: Up <-> Down, Left <-> Right
action_reverse(a) ==
    CASE a = "UP" -> "DOWN"
      [] a = "DOWN" -> "UP"
      [] a = "LEFT" -> "RIGHT"
      [] a = "RIGHT" -> "LEFT"

\* Action::reverse_symmetry: the Move that, outside canonical space, leads from
\* the image of a point to the image of the point a leads to
action_reverse_symmetry(a, sym) ==
    LET p == Point_from(1, 1)
    IN CHOOSE b \in Actions :
         PointAdd(point_reverse_symmetry(p, sym), b)
           = point_reverse_symmetry(PointAdd(p, a), sym)

\* the effect of a Transform on a direction, a Move taken as its step
\* (rows, columns): Mirror turns the rows over, the rotations turn the step
action_transform(a, t) ==
    CASE t = "Mirror" -> (CASE a = "UP" -> "DOWN" [] a = "DOWN" -> "UP" [] OTHER -> a)
      [] t = "Deg90" -> (CASE a = "UP" -> "LEFT" [] a = "LEFT" -> "DOWN"
                           [] a = "DOWN" -> "RIGHT" [] a = "RIGHT" -> "UP")
      [] t = "Deg270" -> (CASE a = "UP" -> "RIGHT" [] a = "RIGHT" -> "DOWN"
                            [] a = "DOWN" -> "LEFT" [] a = "LEFT" -> "UP")
      [] t = "Deg180" -> action_reverse(a)

\* a Move mapped by a symmetry: the mirror first, then the transform, as for
\* a Point
action_symmetry(a, sym) ==
    IF sym.transform = "Mirror" /\ sym.mirror THEN a
    ELSE action_transform(IF sym.mirror THEN action_transform(a, "Mirror") ELSE a,
                          sym.transform)

---------------------------------------------------------------------------
(* marks.rs: MarkBoard(u16), bit p set when cell p is occupied *)

\* MarkBoard::marked
marked(m, p) == (m \div (2 ^ index(p))) % 2 # 0

\* MarkBoard::mark
mark(m, p) == IF marked(m, p) THEN m ELSE m + 2 ^ index(p)

\* the or of the bits 1 << q, q in a set
RECURSIVE bits_of(_)
bits_of(S) == IF S = {} THEN 0
              ELSE LET q == CHOOSE q \in S : TRUE IN 2 ^ q + bits_of(S \ {q})

\* MarkBoard::from(board)
MarkBoard_from(b) == bits_of({index(p) : p \in {q \in iter_all : cell(b, q) # 0}})

\* MarkBoard::all_symmeries: cartesian_product of the transforms and [true, false]
all_symmeries ==
    << [transform |-> "Mirror", mirror |-> TRUE],
       [transform |-> "Mirror", mirror |-> FALSE],
       [transform |-> "Deg90", mirror |-> TRUE],
       [transform |-> "Deg90", mirror |-> FALSE],
       [transform |-> "Deg180", mirror |-> TRUE],
       [transform |-> "Deg180", mirror |-> FALSE],
       [transform |-> "Deg270", mirror |-> TRUE],
       [transform |-> "Deg270", mirror |-> FALSE] >>

\* MarkBoard::transform
mark_transform(m, t) ==
    bits_of({index(point_transform(p, t)) : p \in {q \in iter_all : marked(m, q)}})

\* MarkBoard::symmetry
mark_symmetry(m, sym) ==
    IF sym.transform = "Mirror" /\ sym.mirror THEN m
    ELSE mark_transform(IF sym.mirror THEN mark_transform(m, "Mirror") ELSE m,
                        sym.transform)

---------------------------------------------------------------------------
(* marks.rs: ActionBoard { end, actions: u32, starts }. actions, 2 bits a  *)
(* point, is kept as a function from the point to its 2 bits.              *)

\* the pair (a, point) with the Move a itself recorded, not its reverse
ab_visit_forward(marks, st, a, point) ==
    LET np == PointAdd(point, a) IN
    IF inside(np) /\ ~marked(marks, np) /\ ~marked(st.starts, np)
    THEN [actions |-> [st.actions EXCEPT ![index(np)] = bit_or(@, action_index(a))],
          starts |-> mark(st.starts, np),
          points |-> Append(st.points, np)]
    ELSE st

\* one (a, point) pair of the cartesian product in ActionBoard::from
ab_visit(marks, st, a, point) ==
    LET np == PointAdd(point, a) IN
    IF inside(np) /\ ~marked(marks, np) /\ ~marked(st.starts, np)
    THEN [actions |-> [st.actions EXCEPT
                         ![index(np)] = bit_or(@, action_index(action_reverse(a)))],
          starts |-> mark(st.starts, np),
          points |-> Append(st.points, np)]
    ELSE st

\* the pairs (a, point) of ACTIONS.cartesian_product(points) for one Move a,
\* from points[pi] on
RECURSIVE ab_points(_, _, _, _, _)
ab_points(marks, st, a, points, pi) ==
    IF pi > Len(points) THEN st
    ELSE let_in(ab_visit(marks, st, a, points[pi]),
                LAMBDA s : ab_points(marks, s, a, points, pi + 1))

\* ACTIONS.cartesian_product(points): a outer, point inner, from ACTIONS[ai] on
RECURSIVE ab_layer(_, _, _, _)
ab_layer(marks, st, points, ai) ==
    IF ai > 4 THEN st
    ELSE let_in(ab_points(marks, st, ACTION_LIST[ai], points, 1),
                LAMBDA s : ab_layer(marks, s, points, ai + 1))

\* the while loop of ActionBoard::from
RECURSIVE ab_expand(_, _, _, _)
ab_expand(marks, actions, starts, points) ==
    IF Len(points) = 0 THEN [actions |-> actions, starts |-> starts]
    ELSE let_in(ab_layer(marks,
                         [actions |-> actions, starts |-> starts, points |-> <<>>],
                         points, 1),
                LAMBDA st : ab_expand(marks, st.actions, st.starts, st.points))

\* ActionBoard::from(marks, end)
ActionBoard_from(marks, end) ==
    let_in(ab_expand(marks, [p \in iter_all |-> 0], 0, <<end>>), LAMBDA r :
           [end |-> end, actions |-> r.actions, starts |-> r.starts])

\* ActionBoard::action_by_pos: Option<Action> as a set of at most one Move
action_by_pos(ab, pos) ==
    IF marked(ab.starts, pos) THEN {ACTION_LIST[ab.actions[index(pos)] + 1]} ELSE {}

---------------------------------------------------------------------------
(* marks.rs: ACTION_BOARDS, the lazily built cache *)

\* the enumeration 0 .. ((1 << 16) - 1) has this many patterns: 0 .. 0xFFFE
PatternCount == 2 ^ (N * N) - 1

\* the eligible ends of a pattern: marked, with an unmarked neighbour in the grid
valid_ends(marks) ==
    { p \in iter_all :
        /\ marked(marks, p)
        /\ \E a \in Actions :
             LET neigh == PointAdd(p, a) IN inside(neigh) /\ ~marked(marks, neigh) }

\* the ActionBoardMap of one pattern
action_boards_of(marks) ==
    [end \in valid_ends(marks) |-> ActionBoard_from(marks, end)]

\* the closure with only the pattern itself inserted into seen
cache_visit_no_images(st, i) ==
    IF i \notin st.seen
    THEN [seen |-> st.seen \cup {i}, keys |-> st.keys \cup {i}]
    ELSE st

\* the filter_map closure for pattern i: st holds seen and the keys built so far
cache_visit(st, i) ==
    IF i \notin st.seen
    THEN [seen |-> st.seen \cup {i}
                     \cup {mark_symmetry(i, all_symmeries[k]) : k \in 1 .. 8},
          keys |-> st.keys \cup {i}]
    ELSE st

\* the filter_map closure over the patterns lo .. hi - 1 in increasing order
\* (the range is halved so that the evaluation does not nest deeply)
RECURSIVE cache_range(_, _, _)
cache_range(st, lo, hi) ==
    IF hi <= lo THEN st
    ELSE IF hi = lo + 1 THEN cache_visit(st, lo)
    ELSE let_in(cache_range(st, lo, (lo + hi) \div 2),
                LAMBDA s : cache_range(s, (lo + hi) \div 2, hi))

\* the filter_map over all the patterns from i on: the keys built
cache_keys(st, i) == cache_range(st, i, PatternCount).keys

\* the patterns the bounded boards can show are below PatternLimit
PatternLimit == 2 ^ (MaxCellIndex + 1)

\* the enumeration after its first PatternLimit patterns, kept for the lookups
cache_prefix ==
    cache_range([seen |-> {}, keys |-> {}], 0, Min(PatternLimit, PatternCount))

\* ACTION_BOARDS.contains_key(marks): the closure yields the key i for pattern
\* i only, so the enumeration up to marks decides it
contains_key(marks) ==
    /\ marks < PatternCount
    /\ IF marks < PatternLimit THEN marks \in cache_prefix.keys
       ELSE marks \in cache_range(cache_prefix, PatternLimit, marks + 1).keys

\* ACTION_BOARDS.get(&marks)
ACTION_BOARDS_get(marks) ==
    IF contains_key(marks) THEN [ok |-> TRUE, ab |-> action_boards_of(marks)]
    ELSE [ok |-> FALSE, ab |-> <<>>]

\* MarkBoard::action_board_map: the first symmetry giving the smallest image;
\* ACTION_BOARDS.get(&marks).unwrap() panics when the image is no key
RECURSIVE min_image(_, _, _, _)
min_image(m, k, msym, mmarks) ==
    IF k > 8 THEN [sym |-> msym, marks |-> mmarks]
    ELSE let_in(mark_symmetry(m, all_symmeries[k]), LAMBDA marks :
            IF marks < mmarks THEN min_image(m, k + 1, all_symmeries[k], marks)
            ELSE min_image(m, k + 1, msym, mmarks))

\* the reduce of action_board_map
canonical(m) == min_image(m, 2, all_symmeries[1], mark_symmetry(m, all_symmeries[1]))

\* the patterns of the bounded boards
BoardPatterns == 0 .. (PatternLimit - 1)

\* the patterns tests::action_board_lookups queries: top marked, then
\* top_right, then right and down, then left
TestPatterns == { bits_of({6}), bits_of({6, 7}), bits_of({6, 7, 11, 14}),
                  bits_of({6, 7, 9, 11, 14}) }

\* the patterns that are queried
QueriedPatterns == BoardPatterns \cup TestPatterns

\* the body of action_board_map: the reduce, then ACTION_BOARDS.get
action_board_lookup(m) ==
    let_in(canonical(m), LAMBDA r :
       let_in(ACTION_BOARDS_get(r.marks), LAMBDA got :
          [ok |-> got.ok, sym |-> r.sym, ab |-> got.ab]))

\* action_board_lookup, kept for the patterns that are queried
action_board_map_table == [m \in QueriedPatterns |-> action_board_lookup(m)]

\* MarkBoard::action_board_map
action_board_map(m) ==
    IF m \in QueriedPatterns THEN action_board_map_table[m] ELSE action_board_lookup(m)

\* action_towards with the Move of the canonical pattern returned as it is
action_towards_unmapped(m, pos, end) ==
    let_in(action_board_map(m), LAMBDA r :
       LET e == point_symmetry(end, r.sym)
       IN IF e \in DOMAIN r.ab
          THEN action_by_pos(r.ab[e], point_symmetry(pos, r.sym))
          ELSE {})

\* MarkBoard::action_towards: Option<Action> as a set of at most one Move
action_towards(m, pos, end) ==
    let_in(action_board_map(m), LAMBDA r :
       LET e == point_symmetry(end, r.sym)
       IN IF e \in DOMAIN r.ab
          THEN { action_reverse_symmetry(a, r.sym) :
                   a \in action_by_pos(r.ab[e], point_symmetry(pos, r.sym)) }
          ELSE {})

\* find_all_ends_for with the ends left in the coordinates of the canonical
\* pattern
find_all_ends_for_canonical(m, pos) ==
    let_in(action_board_map(m), LAMBDA r :
       { q \in DOMAIN r.ab : marked(r.ab[q].starts, point_symmetry(pos, r.sym)) })

\* MarkBoard::find_all_ends_for
find_all_ends_for(m, pos) ==
    let_in(action_board_map(m), LAMBDA r :
       { point_reverse_symmetry(p, r.sym) :
           p \in { q \in DOMAIN r.ab :
                     marked(r.ab[q].starts, point_symmetry(pos, r.sym)) } })

---------------------------------------------------------------------------
(* Board's shortcut queries, as solve.rs calls them *)

\* Board::at_zero: the player's current cell is zero
at_zero(b) == cell(b, b.pos) = 0

\* Board::at_point: the player is at p
at_point(b, p) == b.pos = p

\* whether the shortcut cache answers for this board (the lookup does not panic)
cache_ok(b) == action_board_map(MarkBoard_from(b)).ok

\* Board::zero_walk_endings: the ends reachable from the player's position
zero_walk_endings(b) == find_all_ends_for(MarkBoard_from(b), b.pos)

\* Board::move_towards(end) -> Option<(Action, Board)>: the results, one per
\* Move action_towards gives (at most one), of applying that Move
move_towards(b, end, bld) ==
    { [action |-> a, res |-> action(b, a, bld)] :
        a \in action_towards(MarkBoard_from(b), b.pos, end) }

---------------------------------------------------------------------------
(* solve.rs *)

\* next_choices that offers every end again while an end is pending
next_choices_restart(step) ==
    IF at_zero(step.board)
    THEN { [kind |-> "ZeroPath", end |-> e, action |-> "-"] :
             e \in zero_walk_endings(step.board) }
    ELSE { [kind |-> "Free", end |-> 0, action |-> a] : a \in Actions }

\* SolveStep::next_choices
next_choices(step) ==
    IF at_zero(step.board)
    THEN IF step.zero_path_end # {}
         THEN { [kind |-> "ZeroPath", end |-> e, action |-> "-"] : e \in step.zero_path_end }
         ELSE { [kind |-> "ZeroPath", end |-> e, action |-> "-"] :
                  e \in zero_walk_endings(step.board) }
    ELSE { [kind |-> "Free", end |-> 0, action |-> a] : a \in Actions }

\* whether next_choices reads the cache
uses_cache(step) == at_zero(step.board) /\ step.zero_path_end = {}

\* the closure with the Move of a shortcut left out of the sequence
apply_choice_shortcut_unrecorded(step, choice, bld) ==
    IF choice.kind = "Free"
    THEN let_in(action(step.board, choice.action, bld), LAMBDA r :
         let_in(seq_add(step.seq, choice.action, bld), LAMBDA s :
            IF r.kind = "Panic" THEN [panic |-> TRUE, steps |-> {}]
            ELSE IF r.kind = "None" THEN [panic |-> FALSE, steps |-> {}]
            ELSE IF ~s.ok THEN [panic |-> TRUE, steps |-> {}]
            ELSE [panic |-> FALSE,
                  steps |-> {[board |-> r.board, seq |-> s.seq, zero_path_end |-> {}]}]))
    ELSE IF ~cache_ok(step.board) THEN [panic |-> TRUE, steps |-> {}]
    ELSE let_in({ x \in move_towards(step.board, choice.end, bld) : x.res.kind # "None" },
                LAMBDA ms :
            [panic |-> \E m \in ms : \/ m.res.kind = "Panic"
                                     \/ ~seq_add(step.seq, m.action, bld).ok,
             steps |-> { [board |-> m.res.board,
                          seq |-> step.seq,
                          zero_path_end |-> IF at_point(m.res.board, choice.end)
                                            THEN {} ELSE {choice.end}] :
                         m \in { x \in ms : x.res.kind = "Some" } }])

\* the closure with the end left pending on arrival
apply_choice_keeps_end(step, choice, bld) ==
    IF choice.kind = "Free"
    THEN let_in(action(step.board, choice.action, bld), LAMBDA r :
         let_in(seq_add(step.seq, choice.action, bld), LAMBDA s :
            IF r.kind = "Panic" THEN [panic |-> TRUE, steps |-> {}]
            ELSE IF r.kind = "None" THEN [panic |-> FALSE, steps |-> {}]
            ELSE IF ~s.ok THEN [panic |-> TRUE, steps |-> {}]
            ELSE [panic |-> FALSE,
                  steps |-> {[board |-> r.board, seq |-> s.seq, zero_path_end |-> {}]}]))
    ELSE IF ~cache_ok(step.board) THEN [panic |-> TRUE, steps |-> {}]
    ELSE let_in({ x \in move_towards(step.board, choice.end, bld) : x.res.kind # "None" },
                LAMBDA ms :
            [panic |-> \E m \in ms : \/ m.res.kind = "Panic"
                                     \/ ~seq_add(step.seq, m.action, bld).ok,
             steps |-> { [board |-> m.res.board,
                          seq |-> seq_add(step.seq, m.action, bld).seq,
                          zero_path_end |-> {choice.end}] :
                         m \in { x \in ms : x.res.kind = "Some" } }])

\* the filter_map closure of solve_board: what one choice of one step gives.
\* panic: the closure panicked; steps: the step it yields, if any
apply_choice(step, choice, bld) ==
    IF choice.kind = "Free"
    THEN let_in(action(step.board, choice.action, bld), LAMBDA r :
         let_in(seq_add(step.seq, choice.action, bld), LAMBDA s :
            IF r.kind = "Panic" THEN [panic |-> TRUE, steps |-> {}]
            ELSE IF r.kind = "None" THEN [panic |-> FALSE, steps |-> {}]
            ELSE IF ~s.ok THEN [panic |-> TRUE, steps |-> {}]
            ELSE [panic |-> FALSE,
                  steps |-> {[board |-> r.board, seq |-> s.seq, zero_path_end |-> {}]}]))
    ELSE IF ~cache_ok(step.board) THEN [panic |-> TRUE, steps |-> {}]
    ELSE let_in({ x \in move_towards(step.board, choice.end, bld) : x.res.kind # "None" },
                LAMBDA ms :
            [panic |-> \E m \in ms : \/ m.res.kind = "Panic"
                                     \/ ~seq_add(step.seq, m.action, bld).ok,
             steps |-> { [board |-> m.res.board,
                          seq |-> seq_add(step.seq, m.action, bld).seq,
                          zero_path_end |-> IF at_point(m.res.board, choice.end)
                                            THEN {} ELSE {choice.end}] :
                         m \in { x \in ms : x.res.kind = "Some" } }])

\* the flat_map_iter closure: everything one step of the frontier produces
expand_step(step, bld) ==
    IF uses_cache(step) /\ ~cache_ok(step.board)
    THEN {[panic |-> TRUE, steps |-> {}]}
    ELSE { apply_choice(step, c, bld) : c \in next_choices(step) }

\* everything the frontier produces, before the filter
expand(frontier, bld) ==
    let_in(UNION { expand_step(step, bld) : step \in frontier }, LAMBDA rs :
           [panic |-> \E r \in rs : r.panic,
            steps |-> UNION { r.steps : r \in rs }])

\* .filter(|step| !visited.contains(&step.board) && !step.board.is_lost())
survivors(produced, seen) ==
    { s \in produced : s.board \notin seen /\ ~is_lost(s.board) }

---------------------------------------------------------------------------
(* Inputs: the boards FromStr can produce, within the bounds *)

\* magnitudes of the parsed boards: equal, consecutive and distant pairs,
\* and a consecutive pair whose sum does not fit a u8
Vals == {0, 1, 2, 254, 255}

\* impl FromStr for Board: pos = Point::from(0, 0), cells in row-major order
ParsedBoards ==
    { [pos |-> Point_from(0, 0),
       cells |-> [i \in iter_all |-> IF i <= MaxCellIndex THEN f[i] ELSE 0]] :
      f \in [0 .. MaxCellIndex -> Vals] }

\* magnitudes of the boards handed to the solver
SolveVals == {0, 1, 254, 255}

SolveBoards == { b \in ParsedBoards : \A i \in iter_all : b.cells[i] \in SolveVals }

ZeroBoard == [pos |-> 0, cells |-> [i \in iter_all |-> 0]]

\* boards lost from the start whose first round takes the 4 Moves: the cell at
\* (1,1) is dead, the player's cell (0,0) is nonzero, and the magnitudes at
\* (0,2) and (0,3) are free
LostStartBoards ==
    { [pos |-> Point_from(0, 0),
       cells |-> [i \in iter_all |->
                    CASE i = index(Point_from(1, 1)) -> 1
                      [] i = index(Point_from(0, 0)) -> f[0]
                      [] i = index(Point_from(0, 2)) -> f[2]
                      [] i = index(Point_from(0, 3)) -> f[3]
                      [] OTHER -> 0]] :
      f \in { g \in [{0, 2, 3} -> SolveVals] : g[0] # 0 } }

\* the budgets: those of the contract up to MaxBudget, and one beyond MAX_LENGTH
Budgets == (0 .. MaxBudget) \cup {MAX_LENGTH + 1}

\* what solve_board returned: nothing yet, None, or Some(actions)
NoResult == [kind |-> "-", actions |-> <<>>]
ResultNone == [kind |-> "None", actions |-> <<>>]
ResultSome(v) == [kind |-> "Some", actions |-> v]

---------------------------------------------------------------------------
(* The parts of the state a specification does not use stay as they start *)

SeqOff ==
    /\ seq = seq_new /\ seq_prev = seq_new /\ appended = <<>>
    /\ seq_out = "off" /\ plan = <<>>

CacheOff ==
    /\ q_marks = 0 /\ q_pos = 0 /\ q_end = 0 /\ q_pc = "off"
    /\ walk_pos = 0 /\ walk_len = 0

TextOff ==
    /\ text = <<>> /\ parsed = [ok |-> FALSE, board |-> ZeroBoard] /\ rendered = <<>>
    /\ t_pc = "off"

SymOff ==
    /\ sy_sym = all_symmeries[1] /\ sy_p = 0 /\ sy_marks = 0 /\ sy_a = "-"
    /\ sy_image = 0 /\ sy_back = 0 /\ sy_marks_image = 0 /\ sy_marks_back = 0
    /\ sy_moved = 0 /\ sy_pc = "off"

\* the workers of par_extend
MaxWorkers == 2
Workers == 1 .. MaxWorkers

Idle == [phase |-> "idle", items |-> {}, list |-> {}]

ParOff == taken = {} /\ busy = [w \in Workers |-> Idle] /\ par_panic = FALSE

HistOff == frontiers = <<>>

BoardOff ==
    /\ board = ZeroBoard /\ before = ZeroBoard /\ last = "-"
    /\ outcome = "Parsed" /\ nmoves = 0

SolveOff ==
    /\ input = ZeroBoard /\ max_moves = 0 /\ pc = "off" /\ steps = {}
    /\ next_steps = {}
    /\ visited = {} /\ moves_remaining = 0 /\ rounds = 0
    /\ cache_init = FALSE /\ result = NoResult

---------------------------------------------------------------------------
(* SpecBoard: a parsed board, then moves *)

InitBoard ==
    /\ build \in Builds
    /\ board \in ParsedBoards
    /\ before = board
    /\ last = "-"
    /\ outcome = "Parsed"
    /\ nmoves = 0
    /\ SolveOff /\ SeqOff /\ CacheOff /\ TextOff /\ SymOff /\ ParOff /\ HistOff

\* board.action(a) returned Some(next_board): play on from next_board
MoveSome(a) ==
    /\ outcome \in {"Parsed", "Some", "None"}
    /\ nmoves < MaxDepth
    /\ action(board, a, build).kind = "Some"
    /\ board' = action(board, a, build).board
    /\ before' = board
    /\ last' = a
    /\ outcome' = "Some"
    /\ nmoves' = nmoves + 1
    /\ UNCHANGED <<otherVars, build, solveVars>>

\* board.action(a) returned None: the board is as it was
MoveNone(a) ==
    /\ outcome \in {"Parsed", "Some", "None"}
    /\ nmoves < MaxDepth
    /\ action(board, a, build).kind = "None"
    /\ before' = board
    /\ last' = a
    /\ outcome' = "None"
    /\ nmoves' = nmoves + 1
    /\ UNCHANGED <<otherVars, build, board, solveVars>>

\* board.action(a) panicked (u8 overflow in a debug build)
MovePanic(a) ==
    /\ outcome \in {"Parsed", "Some", "None"}
    /\ nmoves < MaxDepth
    /\ action(board, a, build).kind = "Panic"
    /\ before' = board
    /\ last' = a
    /\ outcome' = "Panic"
    /\ nmoves' = nmoves + 1
    /\ UNCHANGED <<otherVars, build, board, solveVars>>

NextBoard == \E a \in Actions : MoveSome(a) \/ MoveNone(a) \/ MovePanic(a)

SpecBoard == InitBoard /\ [][NextBoard]_vars

---------------------------------------------------------------------------
(* Spec: one call of solve_board(&input, max_moves) *)

Init ==
    /\ build \in Builds
    /\ input \in SolveBoards \cup LostStartBoards
    /\ max_moves \in Budgets
    /\ pc = "entry"
    /\ steps = {}
    /\ next_steps = {}
    /\ visited = {}
    /\ moves_remaining = 0
    /\ rounds = 0
    /\ cache_init = FALSE
    /\ result = NoResult
    /\ BoardOff /\ SeqOff /\ CacheOff /\ TextOff /\ SymOff /\ ParOff /\ HistOff

\* assert!(max_moves <= ActionSequence::MAX_LENGTH) fails
EnterPanic ==
    /\ pc = "entry"
    /\ ~(max_moves <= MAX_LENGTH)
    /\ pc' = "panic"
    /\ UNCHANGED <<otherVars, build, boardVars, input, max_moves, steps, next_steps, visited,
                   moves_remaining, rounds, cache_init, result>>

\* the early return placed before the assert on max_moves
EnterWon_unchecked ==
    /\ pc = "entry"
    /\ is_won(input)
    /\ result' = ResultSome(<<>>)
    /\ pc' = "done"
    /\ UNCHANGED <<otherVars, build, boardVars, input, max_moves, steps, next_steps, visited,
                   moves_remaining, rounds, cache_init>>

\* if board.is_won() { return Some(vec![]) }
EnterWon ==
    /\ pc = "entry"
    /\ max_moves <= MAX_LENGTH
    /\ is_won(input)
    /\ result' = ResultSome(<<>>)
    /\ pc' = "done"
    /\ UNCHANGED <<otherVars, build, boardVars, input, max_moves, steps, next_steps, visited,
                   moves_remaining, rounds, cache_init>>

\* the frontier, the budget and the visited set are set up
EnterSearch ==
    /\ pc = "entry"
    /\ max_moves <= MAX_LENGTH
    /\ ~is_won(input)
    /\ steps' = {[board |-> input, seq |-> seq_new, zero_path_end |-> {}]}
    /\ moves_remaining' = max_moves
    /\ visited' = {}
    /\ frontiers' = <<{input}>>
    /\ pc' = "loop"
    /\ UNCHANGED <<restVars, build, boardVars, input, max_moves, next_steps, rounds,
                   cache_init, result>>

\* the loop condition with moves_remaining >= 0
LoopCond_off_by_one == Cardinality(steps) > 0 /\ moves_remaining >= 0

\* while steps.len() > 0 && moves_remaining > 0
LoopCond == Cardinality(steps) > 0 /\ moves_remaining > 0

\* moves_remaining -= 1; next_steps is made, empty; par_extend is entered and
\* the calling thread waits for the workers
Fork ==
    /\ pc = "loop"
    /\ LoopCond
    /\ moves_remaining' = moves_remaining - 1
    /\ rounds' = rounds + 1
    /\ par_panic' = FALSE
    /\ pc' = "par"
    /\ UNCHANGED <<build, boardVars, input, max_moves, steps, next_steps, visited,
                   cache_init, result, frontiers, taken, busy, seqVars, cacheVars,
                   textVars, symVars>>

\* Spec follows the round by what shows outside the workers: the Lazy cache
\* being forced, a panic being raised, and par_extend returning or resuming
\* the panic. Which worker holds which step is followed in SpecPar; taken and
\* busy stay as they start here.

\* a worker that holds one of the steps in held, the player on a zero cell,
\* reads ACTION_BOARDS in next_choices or move_towards before any choice is
\* applied: the Lazy is forced, once, while the caller still waits and
\* next_steps is still empty. In Spec any step of the frontier may be held;
\* in SpecPar held is what the workers have taken and not yet expanded
Force(held) ==
    /\ pc = "par"
    /\ ~cache_init
    /\ \E s \in held : at_zero(s.board)
    /\ cache_init' = TRUE
    /\ UNCHANGED <<build, boardVars, input, max_moves, pc, steps, next_steps, visited,
                   moves_remaining, rounds, result, frontiers, parVars, seqVars,
                   cacheVars, textVars, symVars>>

\* the closure of a step panics, a step on a zero cell having read the cache
\* before; the panic stays pending while the other workers go on
Raise ==
    /\ pc = "par"
    /\ ~par_panic
    /\ \E s \in steps : (at_zero(s.board) => cache_init) /\ expand({s}, build).panic
    /\ par_panic' = TRUE
    /\ UNCHANGED <<build, boardVars, input, max_moves, pc, steps, next_steps, visited,
                   moves_remaining, rounds, cache_init, result, frontiers, taken, busy,
                   seqVars, cacheVars, textVars, symVars>>

\* every step is done and no closure has panicked: par_extend appends what
\* the workers have collected to next_steps and returns
Extend ==
    /\ pc = "par"
    /\ (\E s \in steps : at_zero(s.board)) => cache_init
    /\ \E ex \in {expand(steps, build)} :
          /\ ~ex.panic
          /\ next_steps' = survivors(ex.steps, visited)
    /\ pc' = "check"
    /\ UNCHANGED <<build, boardVars, input, max_moves, steps, visited, moves_remaining,
                   rounds, cache_init, result, frontiers, parVars, seqVars, cacheVars,
                   textVars, symVars>>

\* the workers have stopped with a panic pending: par_extend resumes it,
\* nothing is appended
Unwind ==
    /\ pc = "par"
    /\ par_panic
    /\ pc' = "panic"
    /\ UNCHANGED <<build, boardVars, input, max_moves, steps, next_steps, visited,
                   moves_remaining, rounds, cache_init, result, frontiers, parVars,
                   seqVars, cacheVars, textVars, symVars>>

\* next_steps.iter().find(|step| step.board.is_won()): return its sequence
RoundWin ==
    /\ pc = "check"
    /\ \E solution \in next_steps :
         /\ is_won(solution.board)
         /\ result' = ResultSome(seq_to_vec(solution.seq))
    /\ pc' = "done"
    /\ UNCHANGED <<otherVars, build, boardVars, input, max_moves, steps, next_steps, visited,
                   moves_remaining, rounds, cache_init>>

\* RoundNext with the newly generated steps merged into visited, not the sources
RoundNext_marks_generated ==
    /\ pc = "check"
    /\ \A s \in next_steps : ~is_won(s.board)
    /\ visited' = visited \cup {s.board : s \in next_steps}
    /\ steps' = next_steps
    /\ frontiers' = Append(frontiers, {s.board : s \in next_steps})
    /\ next_steps' = {}
    /\ pc' = "loop"
    /\ UNCHANGED <<restVars, build, boardVars, input, max_moves, moves_remaining, rounds,
                   cache_init, result>>

\* no win: the sources join visited, next_steps becomes the frontier
RoundNext ==
    /\ pc = "check"
    /\ \A s \in next_steps : ~is_won(s.board)
    /\ visited' = visited \cup {s.board : s \in steps}
    /\ steps' = next_steps
    /\ frontiers' = Append(frontiers, {s.board : s \in next_steps})
    /\ next_steps' = {}
    /\ pc' = "loop"
    /\ UNCHANGED <<restVars, build, boardVars, input, max_moves, moves_remaining, rounds,
                   cache_init, result>>

\* the loop ends: None
Exit ==
    /\ pc = "loop"
    /\ ~LoopCond
    /\ result' = ResultNone
    /\ pc' = "done"
    /\ UNCHANGED <<otherVars, build, boardVars, input, max_moves, steps, next_steps, visited,
                   moves_remaining, rounds, cache_init>>

Next == EnterPanic \/ EnterWon \/ EnterSearch \/ Fork \/ Force(steps) \/ Raise \/ Extend
          \/ Unwind \/ RoundWin \/ RoundNext \/ Exit

Spec == Init /\ [][Next]_vars

---------------------------------------------------------------------------
(* SpecPar: solve_board with the round of par_extend taken apart. The steps  *)
(* of the frontier are handed to the workers one at a time, in any order; a  *)
(* worker whose step stands on a zero cell first reads the Lazy cache,       *)
(* forcing it or waiting until it is forced; the worker then runs the        *)
(* flat_map_iter closure on its step, then the filter on what the closure    *)
(* gave, and keeps the survivors in its own list; when                       *)
(* every step is done par_extend appends the lists to next_steps and         *)
(* returns, or it resumes the panic of a closure once the workers have       *)
(* stopped.                                                                  *)

\* cells 0..MaxParIndex of the boards searched may be nonzero
MaxParIndex == 2
\* the largest budget within the contract
MaxParBudget == 2

\* zero, and a consecutive pair whose sum does not fit a u8
ParVals == {0, 254, 255}

ParBoards ==
    { [pos |-> Point_from(0, 0),
       cells |-> [i \in iter_all |-> IF i <= MaxParIndex THEN f[i] ELSE 0]] :
      f \in [0 .. MaxParIndex -> ParVals] }

InitPar ==
    /\ build \in Builds
    /\ input \in ParBoards
    /\ max_moves \in (0 .. MaxParBudget) \cup {MAX_LENGTH + 1}
    /\ pc = "entry"
    /\ steps = {}
    /\ next_steps = {}
    /\ visited = {}
    /\ moves_remaining = 0
    /\ rounds = 0
    /\ cache_init = FALSE
    /\ result = NoResult
    /\ BoardOff /\ SeqOff /\ CacheOff /\ TextOff /\ SymOff /\ ParOff /\ HistOff

\* a worker takes a step of the frontier
Take(w) ==
    /\ pc = "par"
    /\ busy[w].phase = "idle"
    /\ \E step \in steps \ taken :
          /\ busy' = [busy EXCEPT ![w].phase = "taken", ![w].items = {step}]
          /\ taken' = taken \cup {step}
    /\ UNCHANGED <<build, boardVars, solveVars, frontiers, par_panic, seqVars, cacheVars,
                   textVars, symVars>>

\* the steps the workers have taken and not yet expanded
Held == UNION {busy[w].items : w \in {v \in Workers : busy[v].phase = "taken"}}

\* the worker applies the choices of its step, the cache being forced by now
\* if the step stands on a zero cell; a panic is kept for par_extend to resume
Produce(w) ==
    /\ pc = "par"
    /\ busy[w].phase = "taken"
    /\ \A step \in busy[w].items : at_zero(step.board) => cache_init
    /\ \E ex \in {expand(busy[w].items, build)} :
          \/ /\ ex.panic
             /\ par_panic' = TRUE
             /\ busy' = [busy EXCEPT ![w].phase = "idle", ![w].items = {}]
          \/ /\ ~ex.panic
             /\ par_panic' = par_panic
             /\ busy' = [busy EXCEPT ![w].phase = "produced", ![w].items = ex.steps]
    /\ UNCHANGED <<build, boardVars, input, max_moves, pc, steps, next_steps, visited,
                   moves_remaining, rounds, cache_init, result, frontiers, taken,
                   seqVars, cacheVars, textVars, symVars>>

\* Filter with the boards a worker keeps entered into visited at once
Filter_marks_visited(w) ==
    /\ pc = "par"
    /\ busy[w].phase = "produced"
    /\ busy' = [busy EXCEPT ![w] =
                  [phase |-> "idle", items |-> {},
                   list |-> @.list \cup survivors(@.items, visited)]]
    /\ visited' = visited \cup {s.board : s \in survivors(busy[w].items, visited)}
    /\ UNCHANGED <<build, boardVars, input, max_moves, pc, steps, next_steps,
                   moves_remaining, rounds, cache_init, result, frontiers, taken, par_panic,
                   seqVars, cacheVars, textVars, symVars>>

\* the worker runs the filter on what its closure gave, reading visited, and
\* keeps the survivors in its list
Filter(w) ==
    /\ pc = "par"
    /\ busy[w].phase = "produced"
    /\ busy' = [busy EXCEPT ![w] =
                  [phase |-> "idle", items |-> {},
                   list |-> @.list \cup survivors(@.items, visited)]]
    /\ UNCHANGED <<build, boardVars, input, max_moves, pc, steps, next_steps, visited,
                   moves_remaining, rounds, cache_init, result, frontiers, taken, par_panic,
                   seqVars, cacheVars, textVars, symVars>>

\* every step is done and no closure has panicked: par_extend appends the
\* workers' lists to next_steps and returns
Join ==
    /\ pc = "par"
    /\ taken = steps /\ \A w \in Workers : busy[w].phase = "idle"
    /\ ~par_panic
    /\ next_steps' = UNION {busy[w].list : w \in Workers}
    /\ busy' = [w \in Workers |-> Idle]
    /\ taken' = {}
    /\ pc' = "check"
    /\ UNCHANGED <<build, boardVars, input, max_moves, steps, visited,
                   moves_remaining, rounds, cache_init, result, frontiers, par_panic,
                   seqVars, cacheVars, textVars, symVars>>

\* a closure has panicked and the workers have stopped, with steps left over
\* or not: par_extend resumes the panic, the lists are dropped
JoinPanic ==
    /\ pc = "par"
    /\ \A w \in Workers : busy[w].phase = "idle"
    /\ par_panic
    /\ pc' = "panic"
    /\ busy' = [w \in Workers |-> Idle]
    /\ taken' = {}
    /\ UNCHANGED <<build, boardVars, input, max_moves, steps, next_steps, visited,
                   moves_remaining, rounds, cache_init, result, frontiers, par_panic,
                   seqVars, cacheVars, textVars, symVars>>

NextPar == EnterPanic \/ EnterWon \/ EnterSearch \/ Fork \/ Force(Held)
             \/ (\E w \in Workers : Take(w) \/ Produce(w) \/ Filter(w))
             \/ Join \/ JoinPanic \/ RoundWin \/ RoundNext \/ Exit

SpecPar == InitPar /\ [][NextPar]_vars

---------------------------------------------------------------------------
(* SpecSeq: ActionSequence::new(), then add after add. The caller appends   *)
(* the Moves of plan, in a cycle; the add on a sequence of MAX_LENGTH Moves  *)
(* is tried too.                                                             *)

\* the length of plan
MaxPlan == 3

InitSeq ==
    /\ build \in Builds
    /\ plan \in [1 .. MaxPlan -> Actions]
    /\ seq = seq_new
    /\ seq_prev = seq_new
    /\ appended = <<>>
    /\ seq_out = "New"
    /\ BoardOff /\ SolveOff /\ CacheOff /\ TextOff /\ SymOff /\ ParOff /\ HistOff

\* the Move the caller appends next
NextMove == plan[(Len(appended) % MaxPlan) + 1]

\* seq = seq.add(a): add returned, the caller keeps the new value
AddReturns ==
    /\ seq_out \in {"New", "Added"}
    /\ Len(appended) <= MAX_LENGTH
    /\ seq_add(seq, NextMove, build).ok
    /\ seq' = seq_add(seq, NextMove, build).seq
    /\ seq_prev' = seq
    /\ appended' = Append(appended, NextMove)
    /\ seq_out' = "Added"
    /\ UNCHANGED <<build, plan, boardVars, solveVars, cacheVars, textVars, symVars,
                   parVars, frontiers>>

\* seq.add(a) panicked (debug_assert!): nothing is returned
AddPanics ==
    /\ seq_out \in {"New", "Added"}
    /\ Len(appended) <= MAX_LENGTH
    /\ ~seq_add(seq, NextMove, build).ok
    /\ seq_prev' = seq
    /\ seq_out' = "Panic"
    /\ UNCHANGED <<build, plan, seq, appended, boardVars, solveVars, cacheVars,
                   textVars, symVars,
                   parVars, frontiers>>

NextSeq == AddReturns \/ AddPanics

SpecSeq == InitSeq /\ [][NextSeq]_vars

---------------------------------------------------------------------------
(* SpecCache: queries to the shortcut cache. A pattern is chosen, then       *)
(* action_towards / find_all_ends_for are asked for a pos and an end, and    *)
(* the Moves action_towards gives are followed from pos.                     *)

\* the patterns ACTION_BOARDS enumerates
Patterns == 0 .. (PatternCount - 1)

\* the pattern of a board without a zero cell, which the enumeration
\* 0 .. 0xFFFE of ACTION_BOARDS leaves out
FullPattern == 2 ^ (N * N) - 1

InitCache ==
    /\ build \in Builds
    /\ q_marks \in QueriedPatterns \cup {FullPattern}
    /\ q_pos = 0 /\ q_end = 0
    /\ q_pc = "pattern"
    /\ walk_pos = 0 /\ walk_len = 0
    /\ BoardOff /\ SolveOff /\ SeqOff /\ TextOff /\ SymOff /\ ParOff /\ HistOff

\* marks.action_towards(pos, end) and marks.find_all_ends_for(pos) are called:
\* action_board_map finds the canonical image in ACTION_BOARDS
AskFound(pos, end) ==
    /\ q_pc = "pattern"
    /\ action_board_map(q_marks).ok
    /\ q_pos' = pos
    /\ q_end' = end
    /\ walk_pos' = pos
    /\ walk_len' = 0
    /\ q_pc' = "asked"
    /\ UNCHANGED <<build, q_marks, boardVars, solveVars, seqVars, textVars, symVars,
                   parVars, frontiers>>

\* ACTION_BOARDS.get(&marks).unwrap() panics: the image is no key
AskPanics(pos, end) ==
    /\ q_pc = "pattern"
    /\ ~action_board_map(q_marks).ok
    /\ q_pos' = pos
    /\ q_end' = end
    /\ q_pc' = "panic"
    /\ UNCHANGED <<build, q_marks, walk_pos, walk_len, boardVars, solveVars, seqVars,
                   textVars, symVars,
                   parVars, frontiers>>

\* pos = pos + marks.action_towards(pos, end).unwrap()
Follow ==
    /\ q_pc = "asked"
    /\ inside(walk_pos)
    /\ \E a \in action_towards(q_marks, walk_pos, q_end) :
          walk_pos' = PointAdd(walk_pos, a)
    /\ walk_len' = walk_len + 1
    /\ UNCHANGED <<build, q_marks, q_pos, q_end, q_pc, boardVars, solveVars, seqVars,
                   textVars, symVars,
                   parVars, frontiers>>

NextCache ==
    \/ \E pos \in iter_all : \E end \in iter_all : AskFound(pos, end)
    \/ \E pos \in iter_all : \E end \in iter_all : AskPanics(pos, end)
    \/ Follow

SpecCache == InitCache /\ [][NextCache]_vars

---------------------------------------------------------------------------
(* board.rs: FromStr and Display for Board. A text is the sequence of its    *)
(* characters.                                                               *)

Digits == <<"0", "1", "2", "3", "4", "5", "6", "7", "8", "9">>

is_digit(c) == \E d \in 1 .. 10 : Digits[d] = c
to_digit(c) == (CHOOSE d \in 1 .. 10 : Digits[d] = c) - 1

\* the index of the first sep in s
find(s, sep) == CHOOSE i \in 1 .. Len(s) :
                   s[i] = sep /\ \A j \in 1 .. (i - 1) : s[j] # sep

\* s.splitn(n, sep): at most n pieces, the last one is the rest of s
RECURSIVE splitn(_, _, _)
splitn(s, n, sep) ==
    IF n = 0 THEN <<>>
    ELSE IF n = 1 \/ ~\E i \in 1 .. Len(s) : s[i] = sep THEN <<s>>
    ELSE let_in(find(s, sep), LAMBDA i :
             <<SubSeq(s, 1, i - 1)>> \o splitn(SubSeq(s, i + 1, Len(s)), n - 1, sep))

\* the digits of a u8 from the left: result * 10 + digit, checked
RECURSIVE parse_digits(_, _, _)
parse_digits(ds, k, acc) ==
    IF k > Len(ds) THEN [ok |-> TRUE, value |-> acc]
    ELSE IF ~is_digit(ds[k]) THEN [ok |-> FALSE, value |-> 0]
    ELSE IF acc * 10 + to_digit(ds[k]) >= U8 THEN [ok |-> FALSE, value |-> 0]
    ELSE parse_digits(ds, k + 1, acc * 10 + to_digit(ds[k]))

\* c.parse::<CellNumber>(): u8::from_str, which takes one leading '+'
parse_CellNumber(c) ==
    IF Len(c) = 0 THEN [ok |-> FALSE, value |-> 0]
    ELSE IF c = <<"+">> \/ c = <<"-">> THEN [ok |-> FALSE, value |-> 0]
    ELSE IF c[1] = "+" THEN parse_digits(Tail(c), 1, 0)
    ELSE parse_digits(c, 1, 0)

\* r.splitn(N, ' ').map(|c| c.parse::<CellNumber>())
parse_row(r) ==
    let_in(splitn(r, N, " "), LAMBDA cs :
        [k \in 1 .. Len(cs) |-> parse_CellNumber(cs[k])])

RECURSIVE flat_map(_)
flat_map(rows) ==
    IF Len(rows) = 0 THEN <<>>
    ELSE parse_row(Head(rows)) \o flat_map(Tail(rows))

\* what from_str returns when it returns Err(ParseBoardError)
ParseBoardError == [ok |-> FALSE, board |-> ZeroBoard]

from_str_any_len(s) ==
    let_in(flat_map(splitn(s, N, "|")), LAMBDA numbers :
        IF \E k \in 1 .. Len(numbers) : ~numbers[k].ok THEN ParseBoardError
        ELSE [ok |-> TRUE,
              board |-> [pos |-> Point_from(0, 0),
                         cells |-> [i \in iter_all |->
                                      IF i + 1 <= Len(numbers)
                                      THEN numbers[i + 1].value ELSE 0]]])

from_str(s) ==
    let_in(flat_map(splitn(s, N, "|")), LAMBDA numbers :
        IF \E k \in 1 .. Len(numbers) : ~numbers[k].ok THEN ParseBoardError
        ELSE IF Len(numbers) = N * N
        THEN [ok |-> TRUE,
              board |-> [pos |-> Point_from(0, 0),
                         cells |-> [i \in iter_all |-> numbers[i + 1].value]]]
        ELSE ParseBoardError)

\* u8::to_string: decimal, no sign, no leading zeros
RECURSIVE u8_to_string(_)
u8_to_string(n) ==
    IF n < 10 THEN <<Digits[n + 1]>>
    ELSE u8_to_string(n \div 10) \o <<Digits[(n % 10) + 1]>>

\* .intersperse(sep).flatten(): the pieces, with sep between two of them
RECURSIVE intersperse(_, _)
intersperse(pieces, sep) ==
    IF Len(pieces) = 0 THEN <<>>
    ELSE IF Len(pieces) = 1 THEN pieces[1]
    ELSE pieces[1] \o <<sep>> \o intersperse(Tail(pieces), sep)

fmt_row(b, r) ==
    intersperse([c \in 1 .. N |-> u8_to_string(cell(b, Point_from(r, c - 1)))], " ")

to_string(b) == intersperse([r \in 1 .. N |-> fmt_row(b, r - 1)], "|")

---------------------------------------------------------------------------
(* SpecText: a text is parsed, and the board it gives is rendered. The text  *)
(* is laid out in rows and columns of tokens; one token is any string of     *)
(* TokenChars up to MaxTokenLen, the others are all the same.                *)

\* the longest token tried
MaxTokenLen == 3

TokenChars == {"0", "2", "5", "6", "+", "-"}

Tokens == UNION { [1 .. n -> TokenChars] : n \in 0 .. MaxTokenLen }

Fills == { <<"0">>, <<"2", "5", "5">> }

\* the number of tokens of each row: N rows of N, one row or the number of
\* rows one off
Layouts ==
    { [r \in 1 .. n |-> N] : n \in {N - 1, N, N + 1} }
    \cup { [r \in 1 .. N |-> IF r = v THEN c ELSE N] :
             v \in 1 .. N, c \in {N - 1, N + 1} }

\* where the free token stands: <<row, column>>
FreePlaces == { <<1, 1>>, <<N, N>> }

text_of(layout, place, token, fill) ==
    intersperse(
        [r \in 1 .. Len(layout) |->
            intersperse([c \in 1 .. layout[r] |->
                            IF <<r, c>> = place THEN token ELSE fill], " ")],
        "|")

InitText ==
    /\ build \in Builds
    /\ \E layout \in Layouts, place \in FreePlaces, token \in Tokens, fill \in Fills :
          text = text_of(layout, place, token, fill)
    /\ parsed = ParseBoardError
    /\ rendered = <<>>
    /\ t_pc = "text"
    /\ BoardOff /\ SolveOff /\ SeqOff /\ CacheOff /\ SymOff /\ ParOff /\ HistOff

\* text.parse::<Board>() returned Ok(board)
ParseOk ==
    /\ t_pc = "text"
    /\ from_str(text).ok
    /\ parsed' = from_str(text)
    /\ t_pc' = "parsed"
    /\ UNCHANGED <<build, text, rendered, boardVars, solveVars, seqVars, cacheVars, symVars,
                   parVars, frontiers>>

\* text.parse::<Board>() returned Err(ParseBoardError)
ParseErr ==
    /\ t_pc = "text"
    /\ ~from_str(text).ok
    /\ parsed' = from_str(text)
    /\ t_pc' = "error"
    /\ UNCHANGED <<build, text, rendered, boardVars, solveVars, seqVars, cacheVars, symVars,
                   parVars, frontiers>>

\* board.to_string()
Render ==
    /\ t_pc = "parsed"
    /\ rendered' = to_string(parsed.board)
    /\ t_pc' = "rendered"
    /\ UNCHANGED <<build, text, parsed, boardVars, solveVars, seqVars, cacheVars, symVars,
                   parVars, frontiers>>

NextText == ParseOk \/ ParseErr \/ Render

SpecText == InitText /\ [][NextText]_vars

---------------------------------------------------------------------------
(* SpecSym: a symmetry is applied to a Point and undone, applied to a       *)
(* MarkBoard, a MarkBoard is transformed and transformed back, and the      *)
(* symmetry is applied to the Point a Move leads to.                        *)

\* the pattern of tests::transform_mark_board:
\* (0,0), (0,1), (1,1), (2,3), (3,2), (3,3)
TestMarks == bits_of({0, 1, 5, 11, 14, 15})

Symmetries == { all_symmeries[k] : k \in 1 .. 8 }

InitSym ==
    /\ build \in Builds
    /\ sy_sym \in Symmetries
    /\ sy_p \in iter_all
    /\ sy_marks \in BoardPatterns \cup {TestMarks, FullPattern}
    /\ sy_a = "-"
    /\ sy_image = 0 /\ sy_back = 0 /\ sy_marks_image = 0 /\ sy_marks_back = 0
    /\ sy_moved = 0
    /\ sy_pc = "input"
    /\ BoardOff /\ SolveOff /\ SeqOff /\ CacheOff /\ TextOff /\ ParOff /\ HistOff

\* p.symmetry(sym)
PointSymmetry ==
    /\ sy_pc = "input"
    /\ sy_image' = point_symmetry(sy_p, sy_sym)
    /\ sy_pc' = "image"
    /\ UNCHANGED <<build, sy_sym, sy_p, sy_marks, sy_a, sy_back, sy_marks_image,
                   sy_marks_back, sy_moved, boardVars, solveVars, seqVars, cacheVars,
                   textVars,
                   parVars, frontiers>>

\* p.symmetry(sym).reverse_symmetry(sym)
PointReverse ==
    /\ sy_pc = "image"
    /\ sy_back' = point_reverse_symmetry(sy_image, sy_sym)
    /\ sy_pc' = "back"
    /\ UNCHANGED <<build, sy_sym, sy_p, sy_marks, sy_a, sy_image, sy_marks_image,
                   sy_marks_back, sy_moved, boardVars, solveVars, seqVars, cacheVars,
                   textVars,
                   parVars, frontiers>>

\* marks.symmetry(sym)
MarkSymmetry ==
    /\ sy_pc = "back"
    /\ sy_marks_image' = mark_symmetry(sy_marks, sy_sym)
    /\ sy_pc' = "marks"
    /\ UNCHANGED <<build, sy_sym, sy_p, sy_marks, sy_a, sy_image, sy_back,
                   sy_marks_back, sy_moved, boardVars, solveVars, seqVars, cacheVars,
                   textVars,
                   parVars, frontiers>>

\* marks.transform(t).transform(t.reverse())
MarkRound ==
    /\ sy_pc = "marks"
    /\ sy_marks_back' = mark_transform(mark_transform(sy_marks, sy_sym.transform),
                                       transform_reverse(sy_sym.transform))
    /\ sy_pc' = "round"
    /\ UNCHANGED <<build, sy_sym, sy_p, sy_marks, sy_a, sy_image, sy_back,
                   sy_marks_image, sy_moved, boardVars, solveVars, seqVars, cacheVars,
                   textVars,
                   parVars, frontiers>>

\* (p + a).symmetry(sym), for a Move that stays inside the grid
MoveSymmetry(a) ==
    /\ sy_pc = "round"
    /\ inside(PointAdd(sy_p, a))
    /\ sy_a' = a
    /\ sy_moved' = point_symmetry(PointAdd(sy_p, a), sy_sym)
    /\ sy_pc' = "moved"
    /\ UNCHANGED <<build, sy_sym, sy_p, sy_marks, sy_image, sy_back, sy_marks_image,
                   sy_marks_back, boardVars, solveVars, seqVars, cacheVars, textVars,
                   parVars, frontiers>>

NextSym == PointSymmetry \/ PointReverse \/ MarkSymmetry \/ MarkRound
             \/ \E a \in Actions : MoveSymmetry(a)

SpecSym == InitSym /\ [][NextSym]_vars

---------------------------------------------------------------------------
(* The reference the claims are stated against *)

\* all 16 magnitudes are zero
AllZero(b) == \A i \in 0 .. 15 : b.cells[i] = 0

\* the boards one Move away, every direction tried, nothing cached or pruned
PlainMoves(B, bld) ==
    { action(b, a, bld).board :
        <<b, a>> \in { x \in B \X Actions : action(x[1], x[2], bld).kind = "Some" } }

\* the length of the shortest winning sequence of at most k Moves found by the
\* plain breadth-first search from the boards B at depth j: {} when there is none
RECURSIVE PlainShortest(_, _, _, _)
PlainShortest(B, j, k, bld) ==
    IF \E b \in B : AllZero(b) THEN {j}
    ELSE IF j >= k \/ B = {} THEN {}
    ELSE PlainShortest(PlainMoves(B, bld), j + 1, k, bld)

\* replaying a list of Moves with Board.move: the board reached, or a marker
RECURSIVE Replay(_, _, _)
Replay(b, moves, bld) ==
    IF Len(moves) = 0 THEN [kind |-> "Some", board |-> b]
    ELSE CHOOSE x \in { IF r.kind = "Some" THEN Replay(r.board, Tail(moves), bld) ELSE r :
                         r \in {action(b, Head(moves), bld)} } : TRUE

\* solve_board has ended, by returning or by panicking
Ended == pc \in {"done", "panic"}

\* the step from p by Move m leaves the grid
LeavesGrid(p, m) ==
    \/ m = "UP" /\ p \div 4 = 0
    \/ m = "DOWN" /\ p \div 4 = 3
    \/ m = "LEFT" /\ p % 4 = 0
    \/ m = "RIGHT" /\ p % 4 = 3

\* the coordinate next to p in direction m
Adjacent(p, m) ==
    CASE m = "UP" -> p - 4
      [] m = "DOWN" -> p + 4
      [] m = "LEFT" -> p - 1
      [] m = "RIGHT" -> p + 1

\* q lies on the ray from p (excluded) outward in direction m
OnRay(q, p, m) ==
    \/ m = "UP" /\ q % 4 = p % 4 /\ q < p
    \/ m = "DOWN" /\ q % 4 = p % 4 /\ q > p
    \/ m = "LEFT" /\ q \div 4 = p \div 4 /\ q < p
    \/ m = "RIGHT" /\ q \div 4 = p \div 4 /\ q > p

\* diff as the specification defines it, over the integers
SpecDiff(x, v) ==
    IF x = v THEN 0
    ELSE LET low == IF x < v THEN x ELSE v
             high == IF x < v THEN v ELSE x
         IN IF high > low + 1 THEN high - low ELSE high + low

\* a Move has been tried on `before`
Tried == last # "-"
\* the magnitude the player stood on when the last Move was tried
OriginValue == before.cells[before.pos]
\* the cells of the ray of the last Move
RayCells == { q \in 0 .. 15 : OnRay(q, before.pos, last) }

---------------------------------------------------------------------------
(* Claims about solve_board, under Spec *)

\* C1: if the plain breadth-first search finds a winning sequence of at most
\* max_moves Moves, solve returns a sequence of exactly the shortest length.
C1_Minimal ==
    (Ended /\ max_moves <= MAX_LENGTH)
      => \A j \in PlainShortest({input}, 0, max_moves, build) :
           /\ pc = "done"
           /\ result.kind = "Some"
           /\ Len(result.actions) = j

\* C1, where no u8 sum overflows in a debug build: the call returns, and the
\* returned length is the plain search's shortest
C1_MinimalWhenReturned ==
    (pc = "done" /\ max_moves <= MAX_LENGTH)
      => \A j \in PlainShortest({input}, 0, max_moves, build) :
           /\ result.kind = "Some"
           /\ Len(result.actions) = j

\* C2: a returned sequence replays on the input without an absent result, ends
\* on a won board and is at most max_moves long.
C2_SolutionReplays ==
    result.kind = "Some"
      => /\ Len(result.actions) <= max_moves
         /\ Replay(input, result.actions, build).kind = "Some"
         /\ AllZero(Replay(input, result.actions, build).board)

\* C2's case: a sequence of MaxBudget Moves found through the shortcut cache
C2_Witness ==
    /\ result.kind = "Some"
    /\ Len(result.actions) = MaxBudget
    /\ cache_init

\* C3: a board that is not won, from which no sequence of at most max_moves
\* Moves wins, makes solve return None.
C3_NoSolution ==
    (Ended /\ max_moves <= MAX_LENGTH /\ ~AllZero(input)
       /\ PlainShortest({input}, 0, max_moves, build) = {})
      => (pc = "done" /\ result = ResultNone)

\* C3, for the calls that return
C3_NoSolutionWhenReturned ==
    (pc = "done" /\ ~AllZero(input)
       /\ PlainShortest({input}, 0, max_moves, build) = {})
      => result = ResultNone

\* C4: an all-zero board gives the empty sequence for every budget of the
\* contract, before any round and any cache lookup; a board that is not won
\* gives None with max_moves = 0.
C4_AlreadyWon ==
    /\ (AllZero(input) /\ max_moves <= MAX_LENGTH)
         => /\ pc \in {"entry", "done"}
            /\ rounds = 0 /\ ~cache_init /\ steps = {}
            /\ pc = "done" => result = ResultSome(<<>>)
    /\ (~AllZero(input) /\ max_moves = 0)
         => /\ pc \in {"entry", "loop", "done"}
            /\ rounds = 0
            /\ pc = "done" => result = ResultNone

\* C4's case: the all-zero board, returned at once with the largest budget
C4_Witness ==
    /\ AllZero(input) /\ max_moves = MaxBudget
    /\ pc = "done" /\ result = ResultSome(<<>>)

\* C5: a budget above MAX_LENGTH aborts at entry: no round, no cache lookup, no
\* result, also for a board that is already won.
C5_BudgetRejected ==
    max_moves > MAX_LENGTH
      => /\ pc \in {"entry", "panic"}
         /\ rounds = 0 /\ ~cache_init /\ steps = {} /\ visited = {}
         /\ result = NoResult

\* C5's case: the all-zero board with a budget of MAX_LENGTH + 1 has panicked
C5_Witness ==
    /\ max_moves = MAX_LENGTH + 1
    /\ AllZero(input)
    /\ pc = "panic"

---------------------------------------------------------------------------
(* Claims about Board.move, under SpecBoard *)

\* C6: move returns absent exactly when the step leaves the grid, and otherwise
\* returns a board whose position is the adjacent coordinate; the position of
\* every board reached is inside the grid.
C6_AbsentIffOutside ==
    /\ board.pos \in 0 .. 15
    /\ Tried =>
         IF LeavesGrid(before.pos, last)
         THEN outcome = "None"
         ELSE outcome = "Some" /\ board.pos = Adjacent(before.pos, last)

\* C6, for the calls that return
C6_WhenReturned ==
    /\ board.pos \in 0 .. 15
    /\ (Tried /\ outcome # "Panic") =>
         IF LeavesGrid(before.pos, last)
         THEN outcome = "None"
         ELSE outcome = "Some" /\ board.pos = Adjacent(before.pos, last)

\* C7: move never panics or overflows, and every magnitude of the result is
\* the specified diff value, within 0..255.
C7_NoOverflow ==
    Tried =>
      /\ outcome # "Panic"
      /\ outcome = "Some" =>
           \A q \in 0 .. 15 :
             /\ board.cells[q] \in 0 .. 255
             /\ (OriginValue > 0 /\ q \in RayCells /\ before.cells[q] > 0)
                  => board.cells[q] = SpecDiff(before.cells[q], OriginValue)

\* C8: a move from a zero cell that stays in the grid returns a board with the
\* same 16 magnitudes; only the position differs.
C8_FreeMove ==
    (Tried /\ OriginValue = 0 /\ ~LeavesGrid(before.pos, last))
      => /\ outcome = "Some"
         /\ board.cells = before.cells
         /\ board.pos # before.pos

\* C8's case: a free move whose ray holds a nonzero cell
C8_Witness ==
    /\ Tried /\ outcome = "Some" /\ OriginValue = 0
    /\ \E q \in RayCells : before.cells[q] > 0

\* C9: from a nonzero cell v, every nonzero ray cell becomes diff(cell, v)
\* against the same v, zero ray cells stay zero, and the cells off the ray
\* other than the old position are unchanged.
C9_RayRule ==
    (Tried /\ outcome = "Some" /\ OriginValue > 0)
      => \A q \in 0 .. 15 :
           IF q \in RayCells
           THEN board.cells[q] = IF before.cells[q] = 0 THEN 0
                                 ELSE SpecDiff(before.cells[q], OriginValue)
           ELSE q # before.pos => board.cells[q] = before.cells[q]

\* C9, where the sum of two consecutive magnitudes fits a u8
C9_RayRuleNoOverflow ==
    (Tried /\ outcome = "Some" /\ OriginValue > 0
       /\ \A q \in RayCells : SpecDiff(before.cells[q], OriginValue) <= 255)
      => \A q \in 0 .. 15 :
           IF q \in RayCells
           THEN board.cells[q] = IF before.cells[q] = 0 THEN 0
                                 ELSE SpecDiff(before.cells[q], OriginValue)
           ELSE q # before.pos => board.cells[q] = before.cells[q]

\* C10: after a move from a nonzero cell, the old-position cell is 0 exactly
\* when some ray cell went from nonzero to 0; otherwise it keeps its magnitude.
C10_Discharge ==
    (Tried /\ outcome = "Some" /\ OriginValue > 0)
      => LET cleared == \E q \in RayCells : before.cells[q] > 0 /\ board.cells[q] = 0
         IN /\ (board.cells[before.pos] = 0) <=> cleared
            /\ ~cleared => board.cells[before.pos] = OriginValue

\* C10's case: no ray cell was cleared although a ray cell changed
C10_Witness ==
    /\ Tried /\ outcome = "Some" /\ OriginValue > 0
    /\ \E q \in RayCells : before.cells[q] # board.cells[q]
    /\ \A q \in RayCells : ~(before.cells[q] > 0 /\ board.cells[q] = 0)
    /\ board.cells[before.pos] = OriginValue

---------------------------------------------------------------------------
(* Win and loss *)

\* a nonzero cell whose row and column hold no other nonzero cell
SpecDead(b) ==
    \E p \in 0 .. 15 :
       /\ b.cells[p] # 0
       /\ \A q \in (0 .. 15) \ {p} :
            (q \div 4 = p \div 4 \/ q % 4 = p % 4) => b.cells[q] = 0

\* C11: is_lost holds exactly when some nonzero cell has the other 3 cells of
\* its row and the other 3 cells of its column all zero; is_won holds exactly
\* when all 16 magnitudes are zero, wherever the player is; no board is both
\* won and lost.
C11_LostWon ==
    /\ is_lost(board) <=> SpecDead(board)
    /\ is_won(board) <=> AllZero(board)
    /\ ~(is_won(board) /\ is_lost(board))

\* a lost board with the player away from (0,0), two cells nonzero
C11_Witness ==
    /\ is_lost(board)
    /\ board.pos # 0
    /\ Cardinality({q \in 0 .. 15 : board.cells[q] # 0}) >= 2

---------------------------------------------------------------------------
(* The move sequence *)

\* C12: after n <= MAX_LENGTH adds from the empty sequence, length() is n, and
\* get(i) and the conversion to a list give the i-th appended Move for every
\* i < n; the value the last add was applied to still reads back as the
\* Moves appended before it.
C12_ReadBack ==
    (seq_out \in {"New", "Added"} /\ Len(appended) <= MAX_LENGTH) =>
       /\ length(seq) = Len(appended)
       /\ \A i \in 0 .. (Len(appended) - 1) : seq_get(seq, i) = appended[i + 1]
       /\ seq_to_vec(seq) = appended
       /\ seq_out = "Added" =>
            /\ length(seq_prev) = Len(appended) - 1
            /\ seq_to_vec(seq_prev) = SubSeq(appended, 1, Len(appended) - 1)

\* MAX_LENGTH Moves, not all the same, have been appended
C12_Witness ==
    /\ seq_out = "Added"
    /\ Len(appended) = MAX_LENGTH
    /\ appended[1] # appended[2]
    /\ appended[MAX_LENGTH] = "RIGHT"

\* C13: an add on a sequence that holds MAX_LENGTH Moves aborts: it returns no
\* value.
C13_FailsFast ==
    (seq_out \in {"Added", "Panic"} /\ length(seq_prev) = MAX_LENGTH) => seq_out = "Panic"

---------------------------------------------------------------------------
(* The shortcut cache: occupancy, paths and symmetry on the grid itself *)

\* cell p is occupied in pattern m
Occupied(m, p) == (m \div (2 ^ p)) % 2 = 1

\* p and q are 4-neighbours
Neighbours(p, q) ==
    \/ p \div 4 = q \div 4 /\ ((p % 4) = (q % 4) + 1 \/ (q % 4) = (p % 4) + 1)
    \/ p % 4 = q % 4 /\ ((p \div 4) = (q \div 4) + 1 \/ (q \div 4) = (p \div 4) + 1)

\* ws[j + 1], for j in 0 .. k, is the set of the cells with a 4-neighbour path
\* of at most j steps to `to` whose cells, `to` aside, are all unoccupied
RECURSIVE Within(_, _, _)
Within(m, to, k) ==
    IF k = 0 THEN << {to} >>
    ELSE let_in(Within(m, to, k - 1), LAMBDA ws :
           Append(ws, ws[k] \cup { p \in 0 .. 15 :
                                     ~Occupied(m, p) /\ \E q \in ws[k] : Neighbours(p, q) }))

\* for each cell p, the length of a shortest such path from p to `to`, or -1
\* when there is none
PathLengths(m, to) ==
    let_in(Within(m, to, 15), LAMBDA ws :
       [p \in 0 .. 15 |->
          IF p \notin ws[16] THEN -1
          ELSE CHOOSE k \in 0 .. 15 : p \in ws[k + 1] /\ (k > 0 => p \notin ws[k])])

\* PathLengths, tabulated for the patterns of the bounded boards:
\* PathTable[m][to][p]
PathTable == [m \in QueriedPatterns |-> [to \in 0 .. 15 |-> PathLengths(m, to)]]

\* the occupied cells next to an unoccupied cell that is connected to pos
\* through unoccupied cells (pos included)
BoundaryOf(m, pos) ==
    { e \in 0 .. 15 :
        /\ Occupied(m, e)
        /\ \E z \in 0 .. 15 :
             ~Occupied(m, z) /\ Neighbours(e, z) /\ PathTable[m][pos][z] >= 0 }

\* the 8 symmetries of the square, on (row, column)
GridSymmetries ==
    { [p \in 0 .. 15 |->
         LET r == IF fr THEN 3 - (p \div 4) ELSE p \div 4
             c == IF fc THEN 3 - (p % 4) ELSE p % 4
         IN IF t THEN 4 * c + r ELSE 4 * r + c] :
        t \in BOOLEAN, fr \in BOOLEAN, fc \in BOOLEAN }

\* the value of the 16-bit mask with the bits of S set
RECURSIVE MaskOf(_)
MaskOf(S) == IF S = {} THEN 0
             ELSE LET q == CHOOSE q \in S : TRUE IN 2 ^ q + MaskOf(S \ {q})

\* the numerically smallest image of pattern m under the 8 symmetries
SmallestImage(m) ==
    LET images == { MaskOf({ g[p] : p \in { q \in 0 .. 15 : Occupied(m, q) } }) :
                      g \in GridSymmetries }
    IN CHOOSE i \in images : \A j \in images : i <= j

SmallestTable == [m \in QueriedPatterns |-> SmallestImage(m)]

\* e is an eligible end of pattern m: occupied, next to an unoccupied cell
Eligible(m, e) ==
    Occupied(m, e) /\ \E z \in 0 .. 15 : ~Occupied(m, z) /\ Neighbours(e, z)

\* a query has been answered and no Move followed yet
Asked == q_pc = "asked" /\ walk_len = 0

\* the answer of the cache, and the Move of the ActionBoard built for
\* (q_marks, q_end) on the pattern as it is
CacheMove == action_towards(q_marks, q_pos, q_end)
DirectMove == action_by_pos(ActionBoard_from(q_marks, q_end), q_pos)

\* the case of C14: an unoccupied pos and an eligible end
C14_Case == Asked /\ ~Occupied(q_marks, q_pos) /\ Eligible(q_marks, q_end)

\* C14: for an unoccupied pos and an eligible end, the Move action_towards
\* answers through the canonical cache equals the Move of the ActionBoard
\* built directly for (pattern, end), absence included.
C14_CacheEqualsDirect == C14_Case => CacheMove = DirectMove

\* C14, amended: the two agree on absence, and both Moves lead from pos to an
\* in-grid cell one step nearer to end on a shortest path through unoccupied
\* cells; where several Moves do, the two may differ.
C14_CacheIsShortest ==
    C14_Case =>
       /\ (CacheMove = {}) <=> (DirectMove = {})
       /\ \A a \in CacheMove \cup DirectMove :
            /\ inside(PointAdd(q_pos, a))
            /\ PathTable[q_marks][q_end][q_pos] > 0
            /\ PathTable[q_marks][q_end][PointAdd(q_pos, a)]
                 = PathTable[q_marks][q_end][q_pos] - 1

\* the cache and the direct expansion both answer, with different Moves
C14_Witness ==
    /\ C14_Case
    /\ CacheMove # {} /\ DirectMove # {}
    /\ CacheMove # DirectMove

\* the case of C15: a pattern with an unoccupied cell, an unoccupied pos
C15_Case == Asked /\ ~Occupied(q_marks, q_pos)

\* C15: for an unoccupied pos, find_all_ends_for returns exactly the occupied
\* cells next to an unoccupied cell connected to pos through unoccupied cells,
\* in the coordinates of the pattern as it is; each is occupied, and there is
\* one whenever the pattern has an occupied cell.
C15_EndsAreBoundary ==
    C15_Case =>
       /\ find_all_ends_for(q_marks, q_pos) = BoundaryOf(q_marks, q_pos)
       /\ \A e \in find_all_ends_for(q_marks, q_pos) : Occupied(q_marks, e)
       /\ q_marks # 0 => find_all_ends_for(q_marks, q_pos) # {}

\* the unoccupied cells are in two regions: two ends are returned, and an
\* eligible end of the other region is not
C15_Witness ==
    /\ C15_Case
    /\ Cardinality(find_all_ends_for(q_marks, q_pos)) >= 2
    /\ \E e \in 0 .. 15 : Eligible(q_marks, e) /\ e \notin find_all_ends_for(q_marks, q_pos)

\* the case of C19: an unoccupied pos and one of the ends found for it
C19_Case ==
    /\ q_pc = "asked"
    /\ ~Occupied(q_marks, q_pos)
    /\ q_end \in find_all_ends_for(q_marks, q_pos)

\* C19: following action_towards from pos stays inside the grid, is on an
\* unoccupied cell until it arrives, and after each Move one step nearer to end,
\* so it arrives after exactly the length of a shortest path through unoccupied
\* cells; action_towards is absent when pos is occupied (pos = end included),
\* when the pattern has no occupied cell and when there is no such path.
C19_WalkArrives ==
    /\ C19_Case =>
         /\ inside(walk_pos)
         /\ PathTable[q_marks][q_end][q_pos] > 0
         /\ walk_len + PathTable[q_marks][q_end][walk_pos]
              = PathTable[q_marks][q_end][q_pos]
         /\ walk_pos # q_end =>
              /\ ~Occupied(q_marks, walk_pos)
              /\ action_towards(q_marks, walk_pos, q_end) # {}
    /\ (Asked /\ (\/ Occupied(q_marks, q_pos)
                  \/ q_marks = 0
                  \/ PathTable[q_marks][q_end][q_pos] < 0))
         => action_towards(q_marks, q_pos, q_end) = {}

\* the walk has arrived, around an occupied cell: more Moves than the rows and
\* columns between pos and end
C19_Witness ==
    /\ C19_Case
    /\ walk_pos = q_end
    /\ walk_len = PathTable[q_marks][q_end][q_pos]
    /\ \E dr \in 0 .. 3 : \E dc \in 0 .. 3 :
         /\ dr \in {(q_pos \div 4) - (q_end \div 4), (q_end \div 4) - (q_pos \div 4)}
         /\ dc \in {(q_pos % 4) - (q_end % 4), (q_end % 4) - (q_pos % 4)}
         /\ walk_len > dr + dc

\* C20: the keys of the cache are exactly the patterns that are the smallest
\* image of their symmetry orbit, so for a pattern with an unoccupied cell the
\* smallest image computed at query time is a key and the lookup does not fail.
C20_KeysAreSmallest ==
    q_marks \in Patterns =>
       /\ q_pc = "pattern" =>
             (contains_key(q_marks) <=> (SmallestTable[q_marks] = q_marks))
       /\ canonical(q_marks).marks = SmallestTable[q_marks]
       /\ action_board_map(q_marks).ok
       /\ q_pc # "panic"

\* a query on a pattern that is not a key has been answered
C20_Witness ==
    /\ q_pc = "asked"
    /\ ~contains_key(q_marks)
    /\ canonical(q_marks).marks < q_marks
    /\ action_towards(q_marks, q_pos, q_end) # {}

---------------------------------------------------------------------------
(* Loss *)

\* cell p is dead on board b: nonzero, its row and column otherwise empty
SpecDeadAt(b, p) ==
    /\ b.cells[p] # 0
    /\ \A q \in (0 .. 15) \ {p} :
         (q \div 4 = p \div 4 \/ q % 4 = p % 4) => b.cells[q] = 0

\* C18: loss is absorbing: a move applied to a lost board gives a lost board
\* that is not won; every dead cell keeps its magnitude and stays dead.
C18_LossAbsorbing ==
    [][is_lost(board) =>
         /\ is_lost(board')
         /\ ~is_won(board')
         /\ \A p \in 0 .. 15 :
              SpecDeadAt(board, p) =>
                 SpecDeadAt(board', p) /\ board'.cells[p] = board.cells[p]]_vars

\* two moves in a row have succeeded on a lost board, the second one changing
\* magnitudes, with the player standing on a nonzero cell
C18_Witness ==
    /\ outcome = "Some" /\ nmoves >= 2
    /\ is_lost(before) /\ is_lost(board)
    /\ before.cells # board.cells
    /\ before.cells[before.pos] # 0

---------------------------------------------------------------------------
(* A board lost from the start *)

\* C16: solve on a board that holds a dead cell, with a budget within
\* MAX_LENGTH, is not rejected and does not fail: the search is entered and
\* what it returns is None.
C16_LostStartIsNone ==
    (is_lost(input) /\ max_moves <= MAX_LENGTH) =>
       /\ pc # "panic"
       /\ pc = "done" => result = ResultNone

---------------------------------------------------------------------------
(* Board text *)

\* where sep stands in s
SepsAt(s, sep) == { i \in 1 .. Len(s) : s[i] = sep }

\* the k-th of the places at
NthSep(at, k) == CHOOSE i \in at : Cardinality({ j \in at : j < i }) = k - 1

\* what stands between the seps of s: one piece more than there are seps
Pieces(s, sep) ==
    let_in(SepsAt(s, sep), LAMBDA at :
        [k \in 1 .. (Cardinality(at) + 1) |->
            SubSeq(s,
                   IF k = 1 THEN 1 ELSE NthSep(at, k - 1) + 1,
                   IF k = Cardinality(at) + 1
                   THEN Len(s) ELSE NthSep(at, k) - 1)])

\* the number a string of decimal digits writes
RECURSIVE NumeralValue(_)
NumeralValue(ds) ==
    IF Len(ds) = 0 THEN 0
    ELSE NumeralValue(SubSeq(ds, 1, Len(ds) - 1)) * 10 + to_digit(ds[Len(ds)])

Unsigned(t) == IF Len(t) > 0 /\ t[1] = "+" THEN Tail(t) ELSE t

\* an integer token with a value in 0..255: decimal digits, a '+' allowed
\* before them, leading zeros allowed
IntegerToken(t) ==
    /\ Len(Unsigned(t)) > 0
    /\ \A k \in 1 .. Len(Unsigned(t)) : is_digit(Unsigned(t)[k])
    /\ NumeralValue(Unsigned(t)) <= 255

\* the token a value in 0..255 is written as: digits only, no leading zero
CanonicalToken(t) ==
    /\ IntegerToken(t)
    /\ t[1] # "+"
    /\ Len(t) > 1 => t[1] # "0"

\* exactly N rows separated by '|', each of exactly N tokens separated by ' ',
\* every token as Token(_) asks
Grid(s, Token(_)) ==
    let_in(Pieces(s, "|"), LAMBDA rows :
        /\ Len(rows) = N
        /\ \A r \in 1 .. N :
              let_in(Pieces(rows[r], " "), LAMBDA tokens :
                  /\ Len(tokens) = N
                  /\ \A c \in 1 .. N : Token(tokens[c])))

WellFormed(s) == Grid(s, IntegerToken)
CanonicalText(s) == Grid(s, CanonicalToken)

\* the value of the token at row r, column c of a well-formed text
GridValue(s, r, c) == NumeralValue(Unsigned(Pieces(Pieces(s, "|")[r + 1], " ")[c + 1]))

\* C17 as stated: a text of exactly 4 rows of exactly 4 integer tokens with
\* values 0..255 parses, with the player at (0,0), and the parsed board
\* renders as the text itself; every other text gives the parse error.
C17_RoundTrip ==
    t_pc # "text" =>
        IF WellFormed(text)
        THEN /\ t_pc \in {"parsed", "rendered"}
             /\ parsed.ok
             /\ parsed.board.pos = Point_from(0, 0)
             /\ t_pc = "rendered" => rendered = text
        ELSE t_pc = "error" /\ ~parsed.ok

\* C17, amended: a text of exactly 4 rows of exactly 4 integer tokens with
\* values 0..255 parses, with the player at (0,0) and each cell the value of
\* its token, and the parsed board renders as the text itself exactly when
\* every token is written without '+' and without leading zeros; every other
\* text gives the parse error.
C17_CanonicalRoundTrip ==
    t_pc # "text" =>
        IF WellFormed(text)
        THEN /\ t_pc \in {"parsed", "rendered"}
             /\ parsed.ok
             /\ parsed.board.pos = Point_from(0, 0)
             /\ \A r, c \in 0 .. (N - 1) :
                   cell(parsed.board, Point_from(r, c)) = GridValue(text, r, c)
             /\ t_pc = "rendered" => (rendered = text <=> CanonicalText(text))
        ELSE t_pc = "error" /\ ~parsed.ok

C17_Witness ==
    /\ t_pc = "rendered"
    /\ CanonicalText(text)
    /\ rendered = text
    /\ \E p \in iter_all : cell(parsed.board, p) = 255
    /\ \E p \in iter_all : cell(parsed.board, p) \notin {0, 255}

---------------------------------------------------------------------------
(* Occupancy along moves *)

\* the cells of b that are not zero
NonZero(b) == { q \in 0 .. 15 : b.cells[q] # 0 }

\* C26: a successful move never makes a zero cell nonzero: the nonzero cells
\* of the board reached are among those of the board it was reached from, and
\* there are no more of them; so it is along every sequence of successful
\* moves.
C26_ZeroStaysZero ==
    (Tried /\ outcome = "Some") =>
        /\ \A q \in 0 .. 15 : before.cells[q] = 0 => board.cells[q] = 0
        /\ NonZero(board) \subseteq NonZero(before)
        /\ Cardinality(NonZero(board)) <= Cardinality(NonZero(before))

\* a second successful move in a row, from a nonzero cell over a zero cell of
\* its ray, that has cleared a cell and the old position
C26_Witness ==
    /\ Tried /\ outcome = "Some" /\ nmoves >= 2
    /\ OriginValue > 0
    /\ \E q \in RayCells : before.cells[q] = 0
    /\ Cardinality(NonZero(board)) + 2 <= Cardinality(NonZero(before))

---------------------------------------------------------------------------
(* Symmetries *)

\* the map of the grid a Sym gives
SymMap(sym) == [p \in 0 .. 15 |-> point_symmetry(p, sym)]
SymMaps == [sym \in Symmetries |-> SymMap(sym)]

\* C25: reverse_symmetry(s) undoes symmetry(s) on every Point of the grid; the
\* 8 symmetries are 8 different permutations of the 16 Points, the 8
\* symmetries of the square; a MarkBoard transformed by Deg90 then Deg270, or
\* Mirror twice, is itself, and its image under s marks p.symmetry(s) exactly
\* when it marks p; and (p + m).symmetry(s) = p.symmetry(s) + (m mapped by s)
\* when p + m is inside the grid.
C25_Symmetries ==
    /\ sy_pc # "off" =>
          /\ { SymMaps[sy_sym][p] : p \in 0 .. 15 } = 0 .. 15
          /\ \A sym \in Symmetries \ {sy_sym} : SymMaps[sym] # SymMaps[sy_sym]
          /\ SymMaps[sy_sym] \in GridSymmetries
    /\ sy_pc \in {"back", "marks", "round", "moved"} => sy_back = sy_p
    /\ sy_pc \in {"marks", "round", "moved"} =>
          \A p \in 0 .. 15 :
             Occupied(sy_marks_image, point_symmetry(p, sy_sym)) <=> Occupied(sy_marks, p)
    /\ sy_pc \in {"round", "moved"} => sy_marks_back = sy_marks
    /\ sy_pc = "moved" =>
          /\ sy_moved = PointAdd(sy_image, action_symmetry(sy_a, sy_sym))
          /\ action_reverse_symmetry(action_symmetry(sy_a, sy_sym), sy_sym) = sy_a

\* a mirrored quarter turn that moves the Point, the pattern and the Move
C25_Witness ==
    /\ sy_pc = "moved"
    /\ sy_sym = [transform |-> "Deg90", mirror |-> TRUE]
    /\ sy_image # sy_p /\ sy_back = sy_p
    /\ sy_marks = TestMarks /\ sy_marks_image # sy_marks /\ sy_marks_back = sy_marks
    /\ action_symmetry(sy_a, sy_sym) # sy_a
    /\ sy_moved = PointAdd(sy_image, action_symmetry(sy_a, sy_sym))

---------------------------------------------------------------------------
(* The rounds of the search *)

\* the Moves of step s, replayed from the input with Board.move, give its board
Replays(s) ==
    Replay(input, seq_to_vec(s.seq), build) = [kind |-> "Some", board |-> s.board]

\* C24: at the start of round k every step of the frontier carries exactly k
\* Moves, whose replay from the input gives the step's board; a round, a
\* shortcut round included, appends exactly one Move; no sequence is longer
\* than max_moves <= MAX_LENGTH, and no append of a round overflows.
C24_OneMovePerRound ==
    /\ pc \in {"loop", "check"} =>
          /\ rounds + moves_remaining = max_moves
          /\ max_moves <= MAX_LENGTH
    /\ pc = "loop" =>
          /\ \A s \in steps : length(s.seq) = rounds /\ Replays(s)
          /\ LoopCond =>
                \A s \in steps : \A a \in Actions : seq_add(s.seq, a, build).ok
    /\ pc = "check" =>
          /\ \A s \in steps : length(s.seq) = rounds - 1
          /\ \A s \in next_steps :
                /\ length(s.seq) = rounds /\ length(s.seq) <= max_moves
                /\ \E t \in steps :
                      SubSeq(seq_to_vec(s.seq), 1, rounds - 1) = seq_to_vec(t.seq)

\* a round is about to start from a frontier that holds a step half way
\* along a shortcut, after three rounds
C24_Witness ==
    /\ pc = "loop" /\ LoopCond /\ rounds >= 3
    /\ \E s \in steps : s.zero_path_end # {} /\ length(s.seq) = rounds

\* the boards of the frontiers of rounds 0 .. k - 1
FrontierBoards(k) == UNION { frontiers[j] : j \in 1 .. k }

\* what the closures of the round just run have generated, before the filter
Generated == expand(steps, build).steps

\* what the filter of a round has discarded, and what visited holds
DiscardedAsRuled ==
    /\ pc = "check" =>
          /\ Len(frontiers) = rounds
          /\ frontiers[rounds] = { s.board : s \in steps }
          /\ visited = FrontierBoards(rounds - 1)
          /\ next_steps \subseteq Generated
          /\ \A s \in Generated :
                s \notin next_steps
                  <=> (s.board \in FrontierBoards(rounds - 1) \/ SpecDead(s.board))
    /\ pc = "loop" =>
          /\ Len(frontiers) = rounds + 1
          /\ frontiers[rounds + 1] = { s.board : s \in steps }
          /\ visited = FrontierBoards(rounds)

\* C23: in round k a generated step is discarded exactly when its board (cells
\* and position, whatever its pending end and its Moves) is the board of a
\* source of a round before k, or is lost; the sources of round k itself and
\* the other steps generated in round k discard nothing; and once round k is
\* over, visited is the set of the boards of the frontiers of rounds 0 .. k.
C23_DiscardRule == []DiscardedAsRuled

\* a round has discarded a step that is not lost for a board of an earlier
\* round, and has kept two steps with the same board
C23_Witness ==
    /\ pc = "check" /\ rounds >= 2
    /\ \E s \in Generated :
          s \notin next_steps /\ ~SpecDead(s.board) /\ s.board \in FrontierBoards(rounds - 1)
    /\ \E s, t \in next_steps : s # t /\ s.board = t.board

---------------------------------------------------------------------------
(* The branches of a step *)

\* the player of step s stands on a zero cell
OnZero(s) == s.board.cells[s.board.pos] = 0

\* the occupied-pattern of the board of step s
PatternOf(s) == MaskOf(NonZero(s.board))

\* the ends next_choices offers
EndsOffered(s) == { c.end : c \in { d \in next_choices(s) : d.kind = "ZeroPath" } }

\* the branch towards end e
Towards(e) == [kind |-> "ZeroPath", end |-> e, action |-> "-"]

\* what the branch towards end e gives from step s is what the Move m gives:
\* one step, m appended, the player moved by m, e pending unless reached
ContinuesBy(s, e, m) ==
    let_in(apply_choice(s, Towards(e), build).steps, LAMBDA given :
      \E t \in given :
         /\ given = {t}
         /\ seq_to_vec(t.seq) = Append(seq_to_vec(s.seq), m)
         /\ t.board = action(s.board, m, build).board
         /\ t.board.pos = PointAdd(s.board.pos, m)
         /\ t.zero_path_end = (IF t.board.pos = e THEN {} ELSE {e}))

\* the branches offered from a step on a nonzero cell
BranchesOnNonZero(s, offered) ==
    /\ { c.action : c \in { d \in offered : d.kind = "Free" } } = Actions
    /\ { d \in offered : d.kind = "ZeroPath" } = {}
    /\ Cardinality(offered) = 4
    /\ \A c \in offered : \A t \in apply_choice(s, c, build).steps : t.zero_path_end = {}

\* the branches offered from a step on a zero cell: one for each end in ends
BranchesOnZero(s, offered, ends) ==
    /\ { d \in offered : d.kind = "Free" } = {}
    /\ { c.end : c \in offered } = ends
    /\ Cardinality(offered) = Cardinality(ends)
    /\ \A e \in ends :
          let_in(action_towards(PatternOf(s), s.board.pos, e), LAMBDA first :
            /\ Cardinality(first) <= 1
            /\ \A m \in first : ContinuesBy(s, e, m)
            /\ first = {} => apply_choice(s, Towards(e), build).steps = {})

\* every step of a frontier is offered the branches of its case
BranchesOffered ==
    pc = "loop" =>
      \A s \in steps :
        let_in(next_choices(s), LAMBDA offered :
          IF ~OnZero(s) THEN BranchesOnNonZero(s, offered)
          ELSE IF s.zero_path_end # {}
               THEN /\ Cardinality(s.zero_path_end) = 1
                    /\ BranchesOnZero(s, offered, s.zero_path_end)
               ELSE BranchesOnZero(s, offered,
                                   find_all_ends_for(PatternOf(s), s.board.pos)))

\* C21: a step whose player stands on a nonzero cell is offered exactly the 4
\* Moves, and the steps they give have no pending end; a step on a zero cell
\* with a pending end is offered exactly the branch towards that end; a step
\* on a zero cell with no pending end is offered exactly one branch for each
\* end of find_all_ends_for(pattern, position); and a branch towards an end
\* appends exactly the Move of action_towards and leaves the end pending
\* unless the new position is the end.
C21_Branches == []BranchesOffered

\* a frontier with a step on a nonzero cell, a step half way along a shortcut
\* and a step on a zero cell with two ends or more to choose from
C21_Witness ==
    /\ pc = "loop" /\ LoopCond
    /\ \E s \in steps : ~OnZero(s)
    /\ \E s \in steps : OnZero(s) /\ s.zero_path_end # {}
    /\ \E s \in steps :
          OnZero(s) /\ s.zero_path_end = {} /\ Cardinality(EndsOffered(s)) >= 2

---------------------------------------------------------------------------
(* The pending end *)

\* the board after the first j Moves of step s, replayed from the input
BoardAfter(s, j) == Replay(input, SubSeq(seq_to_vec(s.seq), 1, j), build).board

\* the number of Moves of a shortest path through zero cells from p to e on
\* the board of step s, -1 when there is none
StepsTo(s, p, e) == PathTable[PatternOf(s)][e][p]

\* the boards after 0, 1, ... Moves of step s, replayed from the input
BoardsAlong(s) == [i \in 0 .. length(s.seq) |-> BoardAfter(s, i)]

\* the end e pending in step s, whose replay passes the boards along, was
\* chosen j Moves into its sequence: from there on the cells are those of s,
\* the player was on a zero cell with e among its ends, and every Move since
\* has come one step nearer to e
ChosenAlong(s, e, j, along) ==
    /\ \A i \in j .. length(s.seq) :
          /\ along[i].cells = s.board.cells
          /\ StepsTo(s, along[i].pos, e) = StepsTo(s, s.board.pos, e) + (length(s.seq) - i)
    /\ e \in BoundaryOf(PatternOf(s), along[j].pos)

ChosenAt(s, e, j) == ChosenAlong(s, e, j, BoardsAlong(s))

\* the branch towards e from step s gives exactly one step, one step nearer
\* to e, with the cells as they were
ContinueArrives(s, e) ==
    let_in(apply_choice(s, Towards(e), build), LAMBDA given :
      /\ ~given.panic
      /\ \E t \in given.steps :
            /\ given.steps = {t}
            /\ t.board.cells = s.board.cells
            /\ StepsTo(s, t.board.pos, e) = StepsTo(s, s.board.pos, e) - 1
            /\ t.zero_path_end = {} <=> t.board.pos = e)

\* what holds of every pending end of every step of a frontier
PendingEndKept ==
    pc = "loop" =>
      \A s \in steps :
        \A e \in s.zero_path_end :
          /\ s.zero_path_end = {e}
          /\ OnZero(s)
          /\ s.board.cells[e] # 0 /\ e # s.board.pos
          /\ action_towards(PatternOf(s), s.board.pos, e) # {}
          /\ \A m \in action_towards(PatternOf(s), s.board.pos, e) :
                inside(PointAdd(s.board.pos, m))
          /\ StepsTo(s, s.board.pos, e) >= 1
          /\ ContinueArrives(s, e)
          /\ let_in(BoardsAlong(s), LAMBDA along :
                \E j \in 0 .. (length(s.seq) - 1) : ChosenAlong(s, e, j, along))

\* C27: in every step of a frontier an end is pending only if the player
\* stands on a zero cell; the pending end is a nonzero cell, not the player's;
\* action_towards gives a Move for it, which stays inside the grid; the branch
\* towards the end gives a successor, one step nearer to the end on a
\* shortest path through zero cells, so a walk arrives after the smallest
\* number of Moves; and the cells, the one at the end included, are as they
\* were when the end was chosen.
C27_PendingEnd == []PendingEndKept

\* a step two Moves into a shortcut, with two Moves or more to go
C27_Witness ==
    /\ pc = "loop" /\ LoopCond
    /\ \E s \in steps :
          \E e \in s.zero_path_end :
             /\ StepsTo(s, s.board.pos, e) >= 2
             /\ \E j \in 0 .. (length(s.seq) - 2) : ChosenAt(s, e, j)

---------------------------------------------------------------------------
(* The round among the workers *)

\* the search with every round expanded and filtered in one piece: what it
\* returns from the frontier fr with rem rounds left, k rounds done
RECURSIVE Sequential(_, _, _, _, _)
Sequential(fr, seen, rem, k, bld) ==
    IF fr = {} \/ rem = 0 THEN [kind |-> "None", len |-> 0]
    ELSE let_in(expand(fr, bld), LAMBDA ex :
           IF ex.panic THEN [kind |-> "Panic", len |-> 0]
           ELSE let_in(survivors(ex.steps, seen), LAMBDA nx :
                  IF \E s \in nx : is_won(s.board)
                  THEN [kind |-> "Some", len |-> k + 1]
                  ELSE Sequential(nx, seen \cup {s.board : s \in fr}, rem - 1, k + 1,
                                  bld)))

\* what solve_board gives for a board within the budget's contract
SequentialOutcome(b, m, bld) ==
    IF is_won(b) THEN [kind |-> "Some", len |-> 0]
    ELSE Sequential({[board |-> b, seq |-> seq_new, zero_path_end |-> {}]}, {}, m, 0, bld)

\* whether the Lazy cache can be left forced, or left unforced, when
\* par_extend resumes a panic: the steps that ran are any that include a
\* panicking one, and a step at zero forces the cache before anything else
panic_cache(frontier, forced, bld) ==
    IF forced THEN {TRUE}
    ELSE { c \in BOOLEAN :
             IF c THEN \E s \in frontier : at_zero(s.board)
             ELSE \E s \in frontier : ~at_zero(s.board) /\ expand({s}, bld).panic }

\* what a round run in one piece ends in: the filtered expansion of the whole
\* frontier, or the panic of a closure
round_outcomes(frontier, seen, forced, bld) ==
    let_in(expand(frontier, bld), LAMBDA ex :
       IF ex.panic
       THEN { [panic |-> TRUE, next_steps |-> {}, cache_init |-> c] :
                c \in panic_cache(frontier, forced, bld) }
       ELSE { [panic |-> FALSE,
               next_steps |-> survivors(ex.steps, seen),
               cache_init |-> forced \/ \E s \in frontier : at_zero(s.board)] })

\* what the workers' closures have given and not yet filtered, and what the
\* workers have collected
Given == UNION {busy[w].items : w \in {v \in Workers : busy[v].phase = "produced"}}
Collected == UNION {busy[w].list : w \in Workers}

AllIdle == taken = {} /\ \A w \in Workers : busy[w] = Idle

\* the state of a round, whatever the workers have done so far
RoundState ==
    /\ pc = "par" =>
         let_in(expand(steps, build), LAMBDA ex :
           /\ Held \subseteq taken /\ taken \subseteq steps
           /\ next_steps = {}
           /\ Collected \subseteq survivors(ex.steps, visited)
           /\ Given \subseteq ex.steps
           /\ par_panic => ex.panic)
    /\ pc = "check" =>
         let_in(expand(steps, build), LAMBDA ex :
           /\ ~ex.panic
           /\ next_steps = survivors(ex.steps, visited))
    /\ (pc = "panic" /\ rounds > 0) => expand(steps, build).panic
    /\ pc # "par" => AllIdle
    /\ (Ended /\ max_moves <= MAX_LENGTH) =>
         let_in(SequentialOutcome(input, max_moves, build), LAMBDA ref :
           /\ (pc = "panic") = (ref.kind = "Panic")
           /\ pc = "done" => /\ result.kind = ref.kind
                             /\ result.kind = "Some" => Len(result.actions) = ref.len)

\* the cache was forced by a round before the one in progress: a step of an
\* earlier frontier stood on a zero cell
ForcedBefore == \E j \in 1 .. (rounds - 1) : \E b \in frontiers[j] : at_zero(b)

\* visited is written only by the step after the win check, never while a
\* round is with the workers; a round starts only from the loop head; while
\* the workers are at it nothing is appended to next_steps, and what shows of
\* them is the cache being forced by a step on a zero cell or the panic of a
\* closure being raised; what they leave at the join is an outcome of the
\* round run in one piece
RoundStep ==
    /\ (pc = "par" \/ pc' = "par") => visited' = visited
    /\ (pc = "par" /\ pc' = "par") =>
         /\ next_steps' = next_steps
         /\ cache_init' # cache_init =>
               /\ ~cache_init /\ \E s \in Held : at_zero(s.board)
               /\ par_panic' = par_panic
               /\ busy' = busy /\ taken' = taken
         /\ par_panic' # par_panic =>
               /\ ~par_panic
               /\ \E s \in steps : (at_zero(s.board) => cache_init)
                                      /\ expand({s}, build).panic
               /\ cache_init' = cache_init
    /\ (pc = "par" /\ pc' # "par") =>
         /\ [panic |-> pc' = "panic", next_steps |-> next_steps',
             cache_init |-> cache_init']
              \in round_outcomes(steps, visited, ForcedBefore, build)
         /\ cache_init' = cache_init /\ par_panic' = par_panic
         /\ pc' = "check" => ((\E s \in steps : at_zero(s.board)) => cache_init)
         /\ pc' = "panic" => par_panic
    /\ visited' # visited => (pc = "check" /\ pc' = "loop" /\ AllIdle)
    /\ (pc # "par" /\ pc' = "par") =>
         /\ pc = "loop"
         /\ next_steps = {}
         /\ rounds > 0 => visited = UNION {frontiers[j] : j \in 1 .. rounds}
         /\ Len(frontiers) = rounds + 1

\* C22: within a round, however the frontier is shared among the workers and
\* however their expansions interleave, visited is not modified while a worker
\* expands or filters and the surviving next frontier is the same set; so
\* whether a sequence is returned, and its length, are those of the search run
\* in one piece. A round starts only after the previous round's win check and
\* visited update.
C22_InterleavingIndependent == []RoundState /\ [][RoundStep]_vars

\* two workers at work at once in the second round, visited holding the first
\* frontier: one is about to filter steps of which some survive while the
\* other holds a step on a zero cell it has yet to expand, the cache forced
\* in this round
C22_Witness ==
    /\ pc = "par"
    /\ rounds = 2
    /\ visited # {}
    /\ cache_init /\ ~ForcedBefore
    /\ \E w, v \in Workers :
         /\ busy[w].phase = "produced"
         /\ survivors(busy[w].items, visited) # {}
         /\ survivors(busy[w].items, visited) # busy[w].items
         /\ busy[v].phase = "taken"
         /\ \E s \in busy[v].items : at_zero(s.board)

====
